---- MODULE Spec2Model ----
(***************************************************************************)
(* A model of the four batch scripts of ai-daily-report:                   *)
(*   scripts/validate_json.py    (SpecValidate)                            *)
(*   scripts/render.py           (SpecRender)                              *)
(*   scripts/migrate_archives.py (SpecMigrate)                             *)
(*   scripts/fetch_sources.py    (SpecFetch)                               *)
(* Each script is a straight-line program; its position is `pc`.           *)
(***************************************************************************)
EXTENDS Integers, Sequences, FiniteSets, TLC

VARIABLES
    pc,         \* position inside the script's main()
    exitCode,   \* process exit status once pc = "done" (-1 while running)
    dailyFile,  \* data/daily.json: Missing, Invalid (not JSON) or a JSON value
    nowHours,   \* datetime.now(timezone.utc), in hours since day 0
    dieMsg,     \* what die() printed, <<ctx, message>>, or <<>>
    warnings,   \* the WARNING lines printed so far
    traceback,  \* the exception that ended the run uncaught, or ""
    okPrinted,  \* "[validate_json] ok" was printed
    technemeFile, \* data/techneme.json: Missing, Invalid or a JSON value
    templateFile, \* template.html: Missing or its text
    files,      \* archive/*.html and index.html: path -> text
    date,       \* render.py main(): the date being rendered
    contentHtml,\* render.py main(): content_html
    out,        \* render.py main(): the page before {{ARCHIVE_NAV}} is replaced
    sourcesFile,\* sources.json: Missing, Invalid or a JSON value
    net,        \* what each URL answers: an exception or a body
    srcList,    \* fetch_all(): config.get("sources", [])
    srcIdx,     \* fetch_all(): position of the for loop in sources
    results,    \* fetch_all(): results["sources"], source id -> entry
    calls,      \* the fetcher calls made so far, with what they gave
    fetchedFile,\* data/fetched_sources.json: Missing or what main() dumped
    total,      \* "Total items" as main() printed it (-1 before)
    dryRun,     \* migrate_archives.py: "--dry-run" in sys.argv
    archiveList, \* migrate main(): sorted(ARCHIVE_DIR.glob("*.html")), as stems
    fileIdx,    \* migrate main(): position of the for loop in archiveList
    passed,     \* the stems passed to migrate_file, in order
    reported,   \* migrate main(): what was printed for each file
    counts,     \* migrate main(): success_count, skip_count, fail_count
    files0,     \* archive/ and index.html as the run found them
    dryReport,  \* what the preceding dry run reported, or NoReport
    renderRuns  \* how many times main() re-ran render.py

sharedVars == <<pc, exitCode, traceback, dailyFile, nowHours>>
validateVars == <<dieMsg, warnings, okPrinted>>
renderVars == <<technemeFile, templateFile, files, date, contentHtml, out>>
fetchVars == <<sourcesFile, net, srcList, srcIdx, results, calls, fetchedFile, total>>
migrateVars ==
    <<dryRun, archiveList, fileIdx, passed, reported, counts, files0, dryReport, renderRuns>>
vars == <<sharedVars, validateVars, renderVars, fetchVars, migrateVars>>

\* A script that is not the one running leaves its variables at these.
NoReport ==
    [made |-> FALSE, reported |-> <<>>, counts |-> [success |-> 0, skip |-> 0, fail |-> 0],
     passed |-> <<>>, exitCode |-> -1, traceback |-> ""]
FetchIdle ==
    /\ sourcesFile = [t |-> "missing"]
    /\ net = <<>>
    /\ srcList = <<>>
    /\ srcIdx = 0
    /\ results = <<>>
    /\ calls = <<>>
    /\ fetchedFile = [t |-> "missing"]
    /\ total = -1
MigrateIdle ==
    /\ dryRun = FALSE
    /\ archiveList = <<>>
    /\ fileIdx = 0
    /\ passed = <<>>
    /\ reported = <<>>
    /\ counts = [success |-> 0, skip |-> 0, fail |-> 0]
    /\ files0 = <<>>
    /\ dryReport = NoReport
    /\ renderRuns = 0

(***************************************************************************)
(* JSON values as json.loads builds them.  A dict keeps its keys in file   *)
(* order (Python dicts are ordered): it is a sequence of key/value pairs.  *)
(* A string is a sequence of tokens; " " is the whitespace token.          *)
(***************************************************************************)
JNull    == [t |-> "null"]
JBool(b) == [t |-> "bool", b |-> b]
JNum(n)  == [t |-> "num", n |-> n]
JStr(s)  == [t |-> "str", s |-> s]
JList(l) == [t |-> "list", l |-> l]
JDict(o) == [t |-> "dict", o |-> o]
KV(k, v) == [k |-> k, v |-> v]

S(tok) == JStr(<<tok>>)

Keys(d) == {d.o[i].k : i \in 1..Len(d.o)}
HasKey(d, k) == d.t = "dict" /\ k \in Keys(d)
\* dict.get(key): the value, or None when the key is absent.
Get(d, k) ==
    IF HasKey(d, k)
    THEN d.o[CHOOSE i \in 1..Len(d.o) : d.o[i].k = k].v
    ELSE JNull
\* dict.get(key, default)
GetDefault(d, k, dflt) == IF HasKey(d, k) THEN Get(d, k) ELSE dflt
\* dict.values(), in key order
Values(d) == [i \in 1..Len(d.o) |-> d.o[i].v]

\* Python truthiness (bool(v)).
Truthy(v) ==
    CASE v.t = "null" -> FALSE
      [] v.t = "bool" -> v.b
      [] v.t = "num"  -> v.n # 0
      [] v.t = "str"  -> Len(v.s) > 0
      [] v.t = "list" -> Len(v.l) > 0
      [] v.t = "dict" -> Len(v.o) > 0
\* Python `a or b`
Or(a, b) == IF Truthy(a) THEN a ELSE b

IsSpace(c) == c \in {" ", "\n"}
RECURSIVE LStrip(_)
LStrip(s) == IF Len(s) > 0 /\ IsSpace(Head(s)) THEN LStrip(Tail(s)) ELSE s
RECURSIVE RStrip(_)
RStrip(s) ==
    IF Len(s) > 0 /\ IsSpace(s[Len(s)]) THEN RStrip(SubSeq(s, 1, Len(s) - 1)) ELSE s
\* str.strip()
Strip(s) == RStrip(LStrip(s))

\* The concatenation of a sequence of sequences (halving keeps it shallow).
RECURSIVE Concat(_)
Concat(ss) ==
    IF Len(ss) = 0 THEN <<>>
    ELSE IF Len(ss) = 1 THEN ss[1]
    ELSE Concat(SubSeq(ss, 1, Len(ss) \div 2)) \o Concat(SubSeq(ss, Len(ss) \div 2 + 1, Len(ss)))

\* str(v): a string is itself; any other value prints as its repr, which
\* holds the text of every string nested in it.
RECURSIVE PyStr(_)
PyStr(v) ==
    CASE v.t = "str"  -> v.s
      [] v.t = "null" -> <<"None">>
      [] v.t = "bool" -> IF v.b THEN <<"True">> ELSE <<"False">>
      [] v.t = "num"  -> <<ToString(v.n)>>
      [] v.t = "list" ->
            <<"[">> \o Concat([i \in 1..Len(v.l) |-> PyStr(v.l[i])]) \o <<"]">>
      [] v.t = "dict" ->
            <<"{">> \o Concat([i \in 1..Len(v.o) |-> <<v.o[i].k>> \o PyStr(v.o[i].v)])
                \o <<"}">>

\* Iterating a value with `for x in v`: the elements, or a TypeError.
Iterable(v) == v.t \in {"list", "str", "dict"}
Iter(v) ==
    CASE v.t = "list" -> v.l
      [] v.t = "str"  -> [i \in 1..Len(v.s) |-> S(v.s[i])]
      [] v.t = "dict" -> [i \in 1..Len(v.o) |-> S(v.o[i].k)]
      [] OTHER        -> <<>>

(***************************************************************************)
(* validate_json.py                                                        *)
(***************************************************************************)
Missing == [t |-> "missing"]
Invalid == [t |-> "invalid"]

REQUIRED_SECTIONS ==
    <<"releases", "updates", "opensource", "benchmarks", "business", "risks">>
LEGACY_FIELD_HINTS == <<"source", "published", "summary", "category">>
SELF_CHECK_KEYS ==
    <<"coverage_analysis", "freshness_check", "bird_status", "dedupe_keys">>
MaxXHighlights == 20
MinHeadlines == 3
MaxHeadlines == 5
WarnAgeHours == 48

\* The outcome of a run of checks: r is "ok", "die" (SystemExit(2)) or
\* "raise" (an exception nothing catches); warn the WARNING lines printed.
Ok(w)          == [r |-> "ok", ctx |-> "", msg |-> "", warn |-> w]
Die(ctx, m, w) == [r |-> "die", ctx |-> ctx, msg |-> m, warn |-> w]
Raise(e, w)    == [r |-> "raise", ctx |-> "", msg |-> e, warn |-> w]
AddWarn(res, w) == [res EXCEPT !.warn = @ \cup w]

must_str_ok(obj, key) ==
    LET v == Get(obj, key) IN v.t = "str" /\ Len(Strip(v.s)) > 0
must_str(obj, key, ctx) ==
    IF must_str_ok(obj, key)
    THEN Ok({})
    ELSE Die(ctx, "missing/empty '" \o key \o "'", {})

must_list(obj, key, ctx) ==
    IF Get(obj, key).t = "list"
    THEN Ok({})
    ELSE Die(ctx, "'" \o key \o "' must be a list", {})

\* datetime.strptime(s, "%Y-%m-%d"): the day number of a date string, or a
\* ValueError.  A date is one token; DayOf is its day number.
DateTokens ==
    <<"2026-02-10", "2026-02-11", "2026-02-12", "2026-02-13", "2026-02-14", "2026-02-15",
      "2026-02-16">>
IsDate(s) == Len(s) = 1 /\ \E i \in 1..Len(DateTokens) : DateTokens[i] = s[1]
DayOf(s) == CHOOSE i \in 1..Len(DateTokens) : DateTokens[i] = s[1]

\* lines 69-76: the 48h warning
TimeIsOld(time_str, now) ==
    LET s == Strip(time_str)
    IN IsDate(s) /\ DayOf(s) * 24 < now - WarnAgeHours

FirstLegacy(it) ==
    LET hits == {i \in 1..Len(LEGACY_FIELD_HINTS) : HasKey(it, LEGACY_FIELD_HINTS[i])}
    IN IF hits = {} THEN 0 ELSE CHOOSE i \in hits : \A j \in hits : i <= j

\* Mutation: only the first source is validated.
validate_first_source_only(sources, i, ctx) ==
    IF Len(sources) = 0 THEN Ok({})
    ELSE LET s == sources[1] IN
         IF s.t # "dict" THEN Die(ctx, "sources[0] must be object", {})
         ELSE IF ~must_str_ok(s, "name") THEN must_str(s, "name", ctx \o ": sources[0]")
         ELSE must_str(s, "url", ctx \o ": sources[0]")

RECURSIVE validate_sources(_, _, _)
validate_sources(sources, i, ctx) ==
    IF i > Len(sources) THEN Ok({})
    ELSE LET s == sources[i] IN
         IF s.t # "dict" THEN Die(ctx, "sources[" \o ToString(i - 1) \o "] must be object", {})
         ELSE IF ~must_str_ok(s, "name")
         THEN must_str(s, "name", ctx \o ": sources[" \o ToString(i - 1) \o "]")
         ELSE IF ~must_str_ok(s, "url")
         THEN must_str(s, "url", ctx \o ": sources[" \o ToString(i - 1) \o "]")
         ELSE validate_sources(sources, i + 1, ctx)

\* Mutation: the legacy keys are looked for after the required fields.
validate_item_legacy_last(it, ctx, now) ==
    IF it.t # "dict" THEN Die(ctx, "item must be object", {})
    ELSE IF ~must_str_ok(it, "title") THEN must_str(it, "title", ctx)
    ELSE IF ~must_str_ok(it, "time") THEN must_str(it, "time", ctx)
    ELSE IF ~must_str_ok(it, "what") THEN must_str(it, "what", ctx)
    ELSE IF ~must_str_ok(it, "why") THEN must_str(it, "why", ctx)
    ELSE IF Get(it, "sources").t # "list" THEN must_list(it, "sources", ctx)
    ELSE IF Len(Get(it, "sources").l) < 1
    THEN Die(ctx, "sources must have at least 1 entry", {})
    ELSE IF validate_sources(Get(it, "sources").l, 1, ctx).r # "ok"
    THEN validate_sources(Get(it, "sources").l, 1, ctx)
    ELSE IF FirstLegacy(it) # 0
    THEN Die(ctx, "found legacy field '" \o LEGACY_FIELD_HINTS[FirstLegacy(it)] \o "'", {})
    ELSE Ok({})

validate_item(it, ctx, now) ==
    IF it.t # "dict" THEN Die(ctx, "item must be object", {})
    ELSE IF FirstLegacy(it) # 0
    THEN Die(ctx, "found legacy field '" \o LEGACY_FIELD_HINTS[FirstLegacy(it)] \o "'", {})
    ELSE IF ~must_str_ok(it, "title") THEN must_str(it, "title", ctx)
    ELSE IF ~must_str_ok(it, "time") THEN must_str(it, "time", ctx)
    ELSE IF ~must_str_ok(it, "what") THEN must_str(it, "what", ctx)
    ELSE IF ~must_str_ok(it, "why") THEN must_str(it, "why", ctx)
    ELSE LET w == IF TimeIsOld(Get(it, "time").s, now) THEN {"time older than 48h"} ELSE {}
             sources == Get(it, "sources")
         IN IF sources.t # "list" THEN AddWarn(must_list(it, "sources", ctx), w)
            ELSE IF Len(sources.l) < 1
            THEN Die(ctx, "sources must have at least 1 entry", w)
            ELSE AddWarn(validate_sources(sources.l, 1, ctx), w)

\* f"{ctx}[{idx}]"
ItemCtx(ctx, idx) == ctx \o "[" \o ToString(idx) \o "]"

\* for idx, it in enumerate(items, 1): validate_item(it, f"{ctx}[{idx}]")
RECURSIVE validate_items(_, _, _, _)
validate_items(items, i, ctx, now) ==
    IF i > Len(items) THEN Ok({})
    ELSE LET r == validate_item(items[i], ItemCtx(ctx, i), now) IN
         IF r.r # "ok" THEN r
         ELSE AddWarn(validate_items(items, i + 1, ctx, now), r.warn)

\* lines 89-92
load_daily(file) ==
    IF file = Missing THEN Die("", "missing data/daily.json", {})
    ELSE IF file = Invalid THEN Raise("JSONDecodeError", {})
    ELSE Ok({})

\* line 94: daily.get raises AttributeError unless daily is a dict
check_date(daily) ==
    IF daily.t # "dict" THEN Raise("AttributeError", {})
    ELSE must_str(daily, "date", "daily")

\* lines 96-100
check_headlines(daily, now) ==
    LET headlines == Get(daily, "headlines") IN
    IF headlines.t # "list" THEN must_list(daily, "headlines", "daily")
    ELSE IF ~(MinHeadlines <= Len(headlines.l) /\ Len(headlines.l) <= MaxHeadlines)
    THEN Die("daily", "daily.headlines must be 3-5 items", {})
    ELSE validate_items(headlines.l, 1, "daily.headlines", now)

\* lines 105-110
RECURSIVE check_required_sections(_, _, _)
check_required_sections(sections, i, now) ==
    IF i > Len(REQUIRED_SECTIONS) THEN Ok({})
    ELSE LET k == REQUIRED_SECTIONS[i]
             v == Get(sections, k)
         IN IF v.t # "list"
            THEN Die("daily", "daily.sections." \o k \o " must be list (can be empty)", {})
            ELSE LET r == validate_items(v.l, 1, "daily.sections." \o k, now) IN
                 IF r.r # "ok" THEN r
                 ELSE AddWarn(check_required_sections(sections, i + 1, now), r.warn)

\* lines 102-110
check_sections(daily, now) ==
    LET sections == Get(daily, "sections") IN
    IF sections.t # "dict" THEN Die("daily", "daily.sections must be object", {})
    ELSE check_required_sections(sections, 1, now)

\* isinstance(v, int): bool is a subclass of int
IsInt(v) == v.t \in {"num", "bool"}

ENGAGEMENT_KEYS == <<"likes", "reposts", "replies">>

\* lines 119-128
RECURSIVE check_x_items(_, _)
check_x_items(xh, i) ==
    IF i > Len(xh) THEN Ok({})
    ELSE LET x == xh[i]
             ctx == ItemCtx("daily.x_highlights", i)
         IN IF x.t # "dict" THEN Die(ctx, "must be object", {})
            ELSE IF ~must_str_ok(x, "author") THEN must_str(x, "author", ctx)
            ELSE IF ~must_str_ok(x, "handle") THEN must_str(x, "handle", ctx)
            ELSE IF ~must_str_ok(x, "text") THEN must_str(x, "text", ctx)
            ELSE IF ~must_str_ok(x, "url") THEN must_str(x, "url", ctx)
            ELSE IF \E j \in 1..Len(ENGAGEMENT_KEYS) :
                        HasKey(x, ENGAGEMENT_KEYS[j]) /\ ~IsInt(Get(x, ENGAGEMENT_KEYS[j]))
            THEN Die(ctx, "must be int", {})
            ELSE check_x_items(xh, i + 1)

\* lines 113-128
check_x_highlights(daily) ==
    LET xh == Get(daily, "x_highlights") IN
    IF xh.t = "null" THEN Ok({})
    ELSE IF xh.t # "list" THEN Die("daily", "daily.x_highlights must be a list when present", {})
    ELSE IF ~(0 <= Len(xh.l) /\ Len(xh.l) <= MaxXHighlights)
    THEN Die("daily", "daily.x_highlights size out of range", {})
    ELSE check_x_items(xh.l, 1)

\* "x.com/" in url or "twitter.com/" in url
HasXLink(url) == \E i \in 1..Len(url) : url[i] \in {"x.com/", "twitter.com/"}

\* lines 134-137 / 140-143: for s in (it.get("sources") or [])
RECURSIVE x_scan_sources(_, _)
x_scan_sources(srcs, i) ==
    IF i > Len(srcs) THEN "false"
    ELSE LET s == Or(srcs[i], JDict(<<>>)) IN
         IF s.t # "dict" THEN "raise"
         ELSE IF HasXLink(PyStr(GetDefault(s, "url", JStr(<<>>)))) THEN "true"
         ELSE x_scan_sources(srcs, i + 1)

x_scan_item(it) ==
    IF it.t # "dict" THEN "raise"
    ELSE LET srcs == Or(Get(it, "sources"), JList(<<>>)) IN
         IF ~Iterable(srcs) THEN "raise" ELSE x_scan_sources(Iter(srcs), 1)

RECURSIVE x_scan_items(_, _)
x_scan_items(items, i) ==
    IF i > Len(items) THEN "false"
    ELSE LET r == x_scan_item(items[i]) IN
         IF r # "false" THEN r ELSE x_scan_items(items, i + 1)

\* for it in (v or [])
x_scan_value(v) ==
    LET e == Or(v, JList(<<>>)) IN
    IF ~Iterable(e) THEN "raise" ELSE x_scan_items(Iter(e), 1)

RECURSIVE x_scan_sections(_, _)
x_scan_sections(secs, i) ==
    IF i > Len(secs) THEN "false"
    ELSE LET r == x_scan_value(secs[i]) IN
         IF r # "false" THEN r ELSE x_scan_sections(secs, i + 1)

\* lines 132-144: "true", "false", or "raise" (AttributeError / TypeError)
has_any_x_link(daily) ==
    LET h == x_scan_value(Get(daily, "headlines")) IN
    IF h # "false" THEN h
    ELSE LET secs == Or(Get(daily, "sections"), JDict(<<>>)) IN
         IF secs.t # "dict" THEN "raise" ELSE x_scan_sections(Values(secs), 1)

\* lines 146-147
warn_no_x(daily) ==
    LET xh == Get(daily, "x_highlights") IN
    IF xh.t = "null" \/ Len(xh.l) = 0
    THEN LET r == has_any_x_link(daily) IN
         IF r = "raise" THEN Raise("AttributeError/TypeError in has_any_x_link", {})
         ELSE IF r = "false" THEN Ok({"no X/Twitter source found"})
         ELSE Ok({})
    ELSE Ok({})

MinBullets == 3
MaxBullets == 5

\* lines 149-156
check_summary(daily) ==
    LET summary == Get(daily, "summary")
        bullets == Get(summary, "bullets")
    IN IF summary.t # "dict" THEN Die("daily", "daily.summary must be object", {})
       ELSE IF \/ bullets.t # "list"
               \/ ~(MinBullets <= Len(bullets.l) /\ Len(bullets.l) <= MaxBullets)
               \/ \E i \in 1..Len(bullets.l) :
                      bullets.l[i].t # "str" \/ Len(Strip(bullets.l[i].s)) = 0
       THEN Die("daily", "daily.summary.bullets must be 3-5 non-empty strings", {})
       ELSE IF ~must_str_ok(summary, "url") THEN must_str(summary, "url", "daily.summary")
       ELSE must_str(summary, "archiveUrl", "daily.summary")

\* lines 161-169
self_check_warnings(daily) ==
    LET sc == Get(daily, "self_check") IN
    IF sc.t # "dict" \/ ~Truthy(sc)
    THEN Ok({"self_check is missing or empty"})
    ELSE Ok({"self_check." \o SELF_CHECK_KEYS[i] \o " is missing" :
                i \in {j \in 1..Len(SELF_CHECK_KEYS) : ~HasKey(sc, SELF_CHECK_KEYS[j])}}
            \cup
            {"self_check." \o SELF_CHECK_KEYS[i] \o " is empty" :
                i \in {j \in 1..Len(SELF_CHECK_KEYS) :
                          HasKey(sc, SELF_CHECK_KEYS[j]) /\ ~Truthy(Get(sc, SELF_CHECK_KEYS[j]))}})

(***************************************************************************)
(* validate_json.py main(), one action per block of checks.                *)
(***************************************************************************)
\* An exception nothing catches ends the interpreter with status 1.
ExitOK == 0
ExitInvalid == 2
ExitTraceback == 1
Running == -1

Finish(res, nextpc) ==
    /\ warnings' = warnings \cup res.warn
    /\ CASE res.r = "ok" ->
              /\ pc' = nextpc
              /\ UNCHANGED <<exitCode, dieMsg, traceback>>
         [] res.r = "die" ->
              /\ pc' = "done"
              /\ exitCode' = ExitInvalid
              /\ dieMsg' = <<res.ctx, res.msg>>
              /\ UNCHANGED traceback
         [] res.r = "raise" ->
              /\ pc' = "done"
              /\ exitCode' = ExitTraceback
              /\ traceback' = res.msg
              /\ UNCHANGED dieMsg

VLoad ==
    /\ pc = "v_load"
    /\ Finish(load_daily(dailyFile), "v_date")
    /\ UNCHANGED <<dailyFile, nowHours, okPrinted, renderVars, fetchVars, migrateVars>>

VDate ==
    /\ pc = "v_date"
    /\ Finish(check_date(dailyFile), "v_headlines")
    /\ UNCHANGED <<dailyFile, nowHours, okPrinted, renderVars, fetchVars, migrateVars>>

VHeadlines ==
    /\ pc = "v_headlines"
    /\ Finish(check_headlines(dailyFile, nowHours), "v_sections")
    /\ UNCHANGED <<dailyFile, nowHours, okPrinted, renderVars, fetchVars, migrateVars>>

VSections ==
    /\ pc = "v_sections"
    /\ Finish(check_sections(dailyFile, nowHours), "v_xh")
    /\ UNCHANGED <<dailyFile, nowHours, okPrinted, renderVars, fetchVars, migrateVars>>

VXHighlights ==
    /\ pc = "v_xh"
    /\ Finish(check_x_highlights(dailyFile), "v_xwarn")
    /\ UNCHANGED <<dailyFile, nowHours, okPrinted, renderVars, fetchVars, migrateVars>>

VWarnNoX ==
    /\ pc = "v_xwarn"
    /\ Finish(warn_no_x(dailyFile), "v_summary")
    /\ UNCHANGED <<dailyFile, nowHours, okPrinted, renderVars, fetchVars, migrateVars>>

VSummary ==
    /\ pc = "v_summary"
    /\ Finish(check_summary(dailyFile), "v_self_check")
    /\ okPrinted' = (check_summary(dailyFile).r = "ok")
    /\ UNCHANGED <<dailyFile, nowHours, renderVars, fetchVars, migrateVars>>

\* main() returns: the interpreter exits 0
VSelfCheck ==
    /\ pc = "v_self_check"
    /\ warnings' = warnings \cup self_check_warnings(dailyFile).warn
    /\ pc' = "done"
    /\ exitCode' = ExitOK
    /\ UNCHANGED <<dailyFile, nowHours, dieMsg, traceback, okPrinted, renderVars, fetchVars, migrateVars>>

(***************************************************************************)
(* The inputs: contents of data/daily.json.  A document is the well-formed *)
(* base document with at most MaxDefects parts replaced by an alternative  *)
(* (absent, wrong type, wrong size, a bad item, an extra key, ...).        *)
(***************************************************************************)
MaxDefects == 2

Absent == [t |-> "absent"]

With(d, k, v) ==
    IF HasKey(d, k)
    THEN JDict([i \in 1..Len(d.o) |-> IF d.o[i].k = k THEN KV(k, v) ELSE d.o[i]])
    ELSE JDict(Append(d.o, KV(k, v)))
KeepOthers(k, p) == p.k # k
Without(d, k) == JDict(SelectSeq(d.o, LAMBDA p : KeepOthers(k, p)))

GoodSource ==
    JDict(<<KV("name", S("Blog")), KV("url", JStr(<<"https://", "example.com/">>))>>)
XSource ==
    JDict(<<KV("name", S("X")), KV("url", JStr(<<"https://", "x.com/", "status">>))>>)
GoodItem ==
    JDict(<<KV("title", S("Title")), KV("time", S("2026-02-14")), KV("what", S("What")),
            KV("why", S("Why")), KV("sources", JList(<<GoodSource>>))>>)

\* Items that break the required shape of an item.
MalformedItems ==
    { JNull,
      With(GoodItem, "title", JStr(<<" ", "\n">>)),
      With(GoodItem, "time", JNum(20260214)),
      With(GoodItem, "what", JStr(<<>>)),
      Without(GoodItem, "why"),
      Without(GoodItem, "sources"),
      With(GoodItem, "sources", S("x.com/")),
      With(GoodItem, "sources", JList(<<>>)),
      With(GoodItem, "sources", JList(<<S("Blog")>>)),
      With(GoodItem, "sources", JList(<<Without(GoodSource, "url")>>)),
      With(GoodItem, "sources", JList(<<GoodSource, With(GoodSource, "name", S(" "))>>)) }
\* Items carrying a legacy key, with and without the required fields.
LegacyItems ==
    { With(GoodItem, LEGACY_FIELD_HINTS[i], S("legacy")) : i \in 1..Len(LEGACY_FIELD_HINTS) }
    \cup { With(GoodItem, "summary", JNull),
           With(Without(GoodItem, "title"), "published", S("2026-02-14")),
           With(With(GoodItem, "category", S("c")), "source", S("s")) }
\* A well-formed item whose text names placeholders of template.html.
PlaceholderItem ==
    With(With(GoodItem, "title", JStr(<<"On ", "{{GENERATED_AT_UTC}}">>)),
         "what", JStr(<<"{{ARCHIVE_NAV}}", " and ", "{{DATE_HUMAN}}">>))
\* Well-formed items: an old one, one with a free-form time, one citing X.
FineItems ==
    { With(GoodItem, "time", JStr(<<" ", "2026-02-10">>)),
      With(GoodItem, "time", S("yesterday")),
      With(GoodItem, "sources", JList(<<GoodSource, XSource>>)),
      PlaceholderItem }
ItemAlts == MalformedItems \cup LegacyItems \cup FineItems
\* Where the alternative item goes: into headlines or into a required section.
NoItem == [loc |-> "none", it |-> JNull]
ItemDefects ==
    {[loc |-> l, it |-> it] : l \in {"headlines", "releases"}, it \in ItemAlts}
    \cup {[loc |-> REQUIRED_SECTIONS[i], it |-> it] :
            i \in 2..Len(REQUIRED_SECTIONS),
            it \in { JNull, With(GoodItem, "title", JStr(<<" ", "\n">>)),
                     With(GoodItem, "sources", JList(<<>>)),
                     With(GoodItem, "source", S("legacy")),
                     With(GoodItem, "time", JStr(<<" ", "2026-02-10">>)) }}

GoodList(n) == JList([i \in 1..n |-> GoodItem])

BaseDate == S("2026-02-14")
DateAlts ==
    {Absent, JStr(<<>>), S(" "), JNum(20260214), S("today"), JStr(<<"2026", "/", "02">>)}

BaseHeadlines == GoodList(MinHeadlines)
\* n well-formed items told apart by their titles.
NumberedList(n) == JList([i \in 1..n |-> With(GoodItem, "title", S(ToString(i)))])
HeadlinesAlts ==
    {Absent, JNull, S("none"), GoodList(MinHeadlines - 1), GoodList(MaxHeadlines),
     GoodList(MaxHeadlines + 1), NumberedList(MaxHeadlines)}

BaseSections ==
    JDict([i \in 1..Len(REQUIRED_SECTIONS) |->
              KV(REQUIRED_SECTIONS[i], IF i = 1 THEN GoodList(1) ELSE JList(<<>>))])
SectionsAlts ==
    {Absent, JList(<<>>), S("none")}
    \cup {Without(BaseSections, REQUIRED_SECTIONS[i]) : i \in 1..Len(REQUIRED_SECTIONS)}
    \cup {With(BaseSections, REQUIRED_SECTIONS[i], JDict(<<>>)) : i \in 1..Len(REQUIRED_SECTIONS)}

\* A key under 'sections' that is none of the required ones.
NoExtra == [pos |-> "none", v |-> JNull]
ExtraAlts ==
    {[pos |-> p, v |-> v] :
        p \in {"first", "last"},
        v \in { JNull, JNum(7), S("memo"), JList(<<S("memo")>>), GoodList(1),
                JList(<<With(GoodItem, "sources", JList(<<XSource>>))>>),
                JList(<<With(GoodItem, "sources", JNum(7))>>) }}

GoodX ==
    JDict(<<KV("author", S("Ann")), KV("handle", S("@ann")), KV("text", S("Post")),
            KV("url", JStr(<<"https://", "x.com/", "ann">>)), KV("likes", JNum(12))>>)
BaseXHighlights == Absent
XHighlightsAlts ==
    { JList(<<GoodX>>), JNull, JList(<<>>), S("none"),
      JList([i \in 1..MaxXHighlights |-> GoodX]),
      JList([i \in 1..(MaxXHighlights + 1) |-> GoodX]),
      JList(<<JNull>>),
      JList(<<GoodX, Without(GoodX, "handle")>>),
      JList(<<With(GoodX, "likes", S("12"))>>),
      JList(<<With(GoodX, "reposts", JBool(TRUE))>>),
      JList(<<With(GoodX, "replies", JNull)>>) }

Bullets(n) == JList([i \in 1..n |-> S("Point")])
GoodSummary ==
    JDict(<<KV("bullets", Bullets(MinBullets)), KV("url", JStr(<<"https://", "example.com/">>)),
            KV("archiveUrl", JStr(<<"https://", "example.com/", "archive">>))>>)
BaseSummary == GoodSummary
SummaryAlts ==
    { Absent, S("none"), JList(<<>>),
      Without(GoodSummary, "bullets"),
      With(GoodSummary, "bullets", Bullets(MinBullets - 1)),
      With(GoodSummary, "bullets", Bullets(MaxBullets)),
      With(GoodSummary, "bullets", Bullets(MaxBullets + 1)),
      With(GoodSummary, "bullets", JList(<<S("Point"), S(" "), S("Point")>>)),
      With(GoodSummary, "bullets", JList(<<S("Point"), JNum(2), S("Point")>>)),
      Without(GoodSummary, "url"),
      With(GoodSummary, "archiveUrl", S(" ")) }

GoodSelfCheck ==
    JDict(<<KV("coverage_analysis", JDict(<<KV("hit_vendors", JList(<<S("OpenAI")>>))>>)),
            KV("freshness_check", JDict(<<KV("target_headlines", JNum(3))>>)),
            KV("bird_status", JDict(<<KV("available", JBool(TRUE))>>)),
            KV("dedupe_keys", JList(<<S("openai-gpt")>>))>>)
BaseSelfCheck == GoodSelfCheck
SelfCheckAlts ==
    { Absent, JNull, JDict(<<>>), S("passed"), JList(<<S("passed")>>), JNum(1),
      Without(GoodSelfCheck, "bird_status"),
      With(GoodSelfCheck, "dedupe_keys", JList(<<>>)),
      With(GoodSelfCheck, "coverage_analysis", S("all vendors hit")) }

\* render.py lines 331 and 349: how many headlines and TechMeme entries show
HeadlinesShown == 5
TechmemeShown == 5

\* daily.techmeme_headlines, read by render.py only
BaseTechmemeHeadlines == Absent
TechmemeHeadlinesAlts ==
    { JList(<<S("Headline A"), JDict(<<KV("text", S("Headline B"))>>)>>),
      JList(<<JDict(<<KV("title", S("Headline C"))>>), JNull, S(" ")>>),
      JList([i \in 1..(TechmemeShown + 1) |-> S("Headline A")]),
      JList(<<>>), JNum(5), S("Headline A"), JList(<<JNum(1)>>),
      JDict(<<KV("text", S("Headline B"))>>) }

Fields ==
    {"date", "headlines", "item", "sections", "extra", "x_highlights", "summary", "self_check"}

Pick(F, f, base, alts) == IF f \in F THEN alts ELSE {base}

\* The choices that deviate from the base document exactly in the parts F.
ChoicesWith(F) ==
    [ date         : Pick(F, "date", BaseDate, DateAlts),
      headlines    : Pick(F, "headlines", BaseHeadlines, HeadlinesAlts),
      item         : Pick(F, "item", NoItem, ItemDefects),
      sections     : Pick(F, "sections", BaseSections, SectionsAlts),
      extra        : Pick(F, "extra", NoExtra, ExtraAlts),
      x_highlights : Pick(F, "x_highlights", BaseXHighlights, XHighlightsAlts),
      summary      : Pick(F, "summary", BaseSummary, SummaryAlts),
      self_check   : Pick(F, "self_check", BaseSelfCheck, SelfCheckAlts),
      techmeme_headlines :
          Pick(F, "techmeme_headlines", BaseTechmemeHeadlines, TechmemeHeadlinesAlts) ]

\* The chosen item replaces the last headline, or joins its section's list.
HeadlinesOf(c) ==
    IF c.item.loc = "headlines" /\ c.headlines.t = "list" /\ Len(c.headlines.l) > 0
    THEN JList([c.headlines.l EXCEPT ![Len(c.headlines.l)] = c.item.it])
    ELSE c.headlines

SectionsOf(c) ==
    LET s1 == IF /\ c.sections.t = "dict"
                 /\ HasKey(c.sections, c.item.loc)
                 /\ Get(c.sections, c.item.loc).t = "list"
              THEN With(c.sections, c.item.loc,
                        JList(Append(Get(c.sections, c.item.loc).l, c.item.it)))
              ELSE c.sections
    IN IF s1.t # "dict" \/ c.extra.pos = "none" THEN s1
       ELSE IF c.extra.pos = "first" THEN JDict(<<KV("notes", c.extra.v)>> \o s1.o)
       ELSE JDict(Append(s1.o, KV("notes", c.extra.v)))

IsPresent(p) == p.v # Absent
DocOf(c) ==
    JDict(SelectSeq(<<KV("date", c.date), KV("headlines", HeadlinesOf(c)),
                      KV("sections", SectionsOf(c)), KV("x_highlights", c.x_highlights),
                      KV("summary", c.summary), KV("self_check", c.self_check),
                      KV("techmeme_headlines", c.techmeme_headlines)>>,
                    IsPresent))

\* The sets of parts a document may deviate in.
DefectSets == {G \in SUBSET Fields : Cardinality(G) <= MaxDefects}

\* What json.loads can return that is not an object, and the empty object.
TopLevelAlts == {JNull, JList(<<>>), JList(<<GoodItem>>), S("daily"), JNum(1), JDict(<<>>)}

DayStart(day) == day * 24
\* 2026-02-14 12:00 UTC and 2026-02-16 00:00 UTC
NowChoices == {DayStart(DayOf(<<"2026-02-14">>)) + 12, DayStart(DayOf(<<"2026-02-14">>) + 2)}

InitValidate ==
    /\ pc = "v_load"
    /\ exitCode = Running
    /\ \/ dailyFile \in {Missing, Invalid} \cup TopLevelAlts
       \/ \E F \in DefectSets : \E c \in ChoicesWith(F) : dailyFile = DocOf(c)
    /\ nowHours \in NowChoices
    /\ dieMsg = <<>>
    /\ warnings = {}
    /\ traceback = ""
    /\ okPrinted = FALSE
    /\ technemeFile = Missing
    /\ templateFile = Missing
    /\ files = <<>>
    /\ date = <<>>
    /\ contentHtml = <<>>
    /\ out = <<>>
    /\ FetchIdle
    /\ MigrateIdle

NextValidate ==
    \/ VLoad
    \/ VDate
    \/ VHeadlines
    \/ VSections
    \/ VXHighlights
    \/ VWarnNoX
    \/ VSummary
    \/ VSelfCheck

SpecValidate == InitValidate /\ [][NextValidate]_vars

(***************************************************************************)
(* Claims about validate_json.py                                           *)
(***************************************************************************)
Done == pc = "done"

\* A string that is non-empty after stripping whitespace.
NonBlank(v) == v.t = "str" /\ Len(Strip(v.s)) > 0
NonEmptyStr(v) == v.t = "str" /\ Len(v.s) > 0

SourceWellFormed(s) ==
    s.t = "dict" /\ NonBlank(Get(s, "name")) /\ NonBlank(Get(s, "url"))
ItemWellFormed(it) ==
    /\ it.t = "dict"
    /\ \A k \in {"title", "time", "what", "why"} : NonBlank(Get(it, k))
    /\ Get(it, "sources").t = "list"
    /\ Len(Get(it, "sources").l) >= 1
    /\ \A i \in 1..Len(Get(it, "sources").l) : SourceWellFormed(Get(it, "sources").l[i])

\* The items of a list-valued key, each with the context die() names it by.
ItemsAt(obj, key, ctx) ==
    IF Get(obj, key).t = "list"
    THEN {[ctx |-> ItemCtx(ctx, i), it |-> Get(obj, key).l[i]] : i \in 1..Len(Get(obj, key).l)}
    ELSE {}
\* The items of daily.headlines and of the six required sections.
CheckedItems(daily) ==
    ItemsAt(daily, "headlines", "daily.headlines")
    \cup UNION {ItemsAt(Get(daily, "sections"), REQUIRED_SECTIONS[i],
                        "daily.sections." \o REQUIRED_SECTIONS[i]) :
                   i \in 1..Len(REQUIRED_SECTIONS)}

HasLegacyKey(it) ==
    it.t = "dict" /\ \E i \in 1..Len(LEGACY_FIELD_HINTS) : HasKey(it, LEGACY_FIELD_HINTS[i])
LegacyMessages ==
    {"found legacy field '" \o LEGACY_FIELD_HINTS[i] \o "'" : i \in 1..Len(LEGACY_FIELD_HINTS)}

\* C2: every run of validate_json.py main() ends with exit code 0 or with
\* exit code 2, whatever data/daily.json holds; it never ends otherwise
\* (an uncaught exception).
C2_ExitIsZeroOrTwo == Done => exitCode \in {ExitOK, ExitInvalid}

\* C3: if the run exits 0 then every item of daily.headlines and of the six
\* required sections is an object with non-blank string title, time, what
\* and why and a list of at least one source, each an object with non-blank
\* string name and url; and a document holding an item that is not so makes
\* the run exit 2.
C3_ItemsWellFormed ==
    Done =>
        /\ exitCode = ExitOK =>
               /\ dailyFile.t = "dict"
               /\ \A p \in CheckedItems(dailyFile) : ItemWellFormed(p.it)
        /\ (dailyFile.t = "dict" /\ \E p \in CheckedItems(dailyFile) : ~ItemWellFormed(p.it))
               => exitCode = ExitInvalid

\* A malformed item of a required section was the reason of an exit 2.
C3_Witness ==
    /\ Done /\ exitCode = ExitInvalid
    /\ \E p \in CheckedItems(dailyFile) :
          /\ ~ItemWellFormed(p.it)
          /\ p.ctx = "daily.sections.risks[1]"
          /\ dieMsg[1] = p.ctx

BulletsOK(b) ==
    /\ b.t = "list"
    /\ MinBullets <= Len(b.l) /\ Len(b.l) <= MaxBullets
    /\ \A i \in 1..Len(b.l) : NonEmptyStr(b.l[i])
TopLevelOK(daily) ==
    /\ NonEmptyStr(Get(daily, "date"))
    /\ Get(daily, "headlines").t = "list"
    /\ MinHeadlines <= Len(Get(daily, "headlines").l)
    /\ Len(Get(daily, "headlines").l) <= MaxHeadlines
    /\ Get(daily, "sections").t = "dict"
    /\ \A i \in 1..Len(REQUIRED_SECTIONS) :
          Get(Get(daily, "sections"), REQUIRED_SECTIONS[i]).t = "list"
    /\ Get(daily, "summary").t = "dict"
    /\ BulletsOK(Get(Get(daily, "summary"), "bullets"))
    /\ NonEmptyStr(Get(Get(daily, "summary"), "url"))
    /\ NonEmptyStr(Get(Get(daily, "summary"), "archiveUrl"))

\* C4: the run exits 0 only if daily.date is a non-empty string, headlines a
\* list of 3 to 5 items, sections an object mapping each required key to a
\* list, and summary an object with 3 to 5 non-empty string bullets and
\* non-empty string url and archiveUrl; a document violating any of these
\* makes the run exit 2.
C4_TopLevelShape ==
    Done =>
        /\ exitCode = ExitOK => (dailyFile.t = "dict" /\ TopLevelOK(dailyFile))
        /\ (dailyFile.t = "dict" /\ ~TopLevelOK(dailyFile)) => exitCode = ExitInvalid

XHighlightOK(x) ==
    /\ x.t = "dict"
    /\ \A k \in {"author", "handle", "text", "url"} : NonBlank(Get(x, k))
    /\ \A i \in 1..Len(ENGAGEMENT_KEYS) :
          HasKey(x, ENGAGEMENT_KEYS[i]) => Get(x, ENGAGEMENT_KEYS[i]).t \in {"num", "bool"}
XHighlightsOK(xh) ==
    \/ xh.t = "null"
    \/ /\ xh.t = "list"
       /\ Len(xh.l) <= MaxXHighlights
       /\ \A i \in 1..Len(xh.l) : XHighlightOK(xh.l[i])
\* Every blocking requirement of the validator is met.
BlockingOK(daily) ==
    /\ daily.t = "dict"
    /\ TopLevelOK(daily)
    /\ NonBlank(Get(daily, "date"))
    /\ \A p \in CheckedItems(daily) : ItemWellFormed(p.it) /\ ~HasLegacyKey(p.it)
    /\ XHighlightsOK(Get(daily, "x_highlights"))
    /\ \A i \in 1..Len(Get(Get(daily, "summary"), "bullets").l) :
          NonBlank(Get(Get(daily, "summary"), "bullets").l[i])
    /\ NonBlank(Get(Get(daily, "summary"), "url"))
    /\ NonBlank(Get(Get(daily, "summary"), "archiveUrl"))

\* C5: warnings never block: a document that meets every blocking
\* requirement exits 0, whether or not an item is older than 48 hours, an
\* X/Twitter source is present, or self_check is missing, empty or
\* incomplete.
C5_WarningsNeverBlock == (Done /\ BlockingOK(dailyFile)) => exitCode = ExitOK

\* C10: a document holding an item with a legacy key (source, published,
\* summary, category) in headlines or a required section exits 2, whatever
\* else the item holds; and when the item die() names carries a legacy key,
\* the message is the legacy hint, not a required-field message.
C10_LegacyRejectedFirst ==
    Done =>
        /\ (dailyFile.t = "dict" /\ \E p \in CheckedItems(dailyFile) : HasLegacyKey(p.it))
               => exitCode = ExitInvalid
        /\ \A p \in CheckedItems(dailyFile) :
               (exitCode = ExitInvalid /\ dieMsg[1] = p.ctx /\ HasLegacyKey(p.it))
                   => dieMsg[2] \in LegacyMessages

\* An item with a legacy key and no title was rejected for the legacy key.
C10_Witness ==
    /\ Done /\ exitCode = ExitInvalid
    /\ \E p \in CheckedItems(dailyFile) :
          /\ HasLegacyKey(p.it) /\ ~HasKey(p.it, "title")
          /\ dieMsg = <<p.ctx, "found legacy field 'published'">>

\* The messages die() gives for x_highlights.
AboutXHighlights(msg) ==
    /\ Len(msg) = 2
    /\ \/ msg[2] \in {"daily.x_highlights must be a list when present",
                      "daily.x_highlights size out of range"}
       \/ \E i \in 1..(MaxXHighlights + 1) : msg[1] = ItemCtx("daily.x_highlights", i)
\* An X highlight as the document's reader expects it: an object with
\* non-blank author, handle, text and url, whose likes, reposts and replies
\* are JSON integers when present.
XHighlightIntegersOK(x) ==
    /\ x.t = "dict"
    /\ \A k \in {"author", "handle", "text", "url"} : NonBlank(Get(x, k))
    /\ \A i \in 1..Len(ENGAGEMENT_KEYS) :
          HasKey(x, ENGAGEMENT_KEYS[i]) => Get(x, ENGAGEMENT_KEYS[i]).t = "num"
XHighlightsIntegersOK(xh) ==
    /\ xh.t = "list"
    /\ Len(xh.l) <= MaxXHighlights
    /\ \A i \in 1..Len(xh.l) : XHighlightIntegersOK(xh.l[i])

\* C11: x_highlights is optional: a document without it (or with null) is
\* never rejected with an x_highlights message; a document with it exits 0
\* only if it is a list of at most 20 objects with non-blank author,
\* handle, text and url and integer likes, reposts and replies where
\* present, and exits 2 when it is not such a list.
C11_XHighlightsOptional ==
    (Done /\ dailyFile.t = "dict") =>
        LET xh == Get(dailyFile, "x_highlights") IN
        /\ xh.t = "null" => ~(exitCode = ExitInvalid /\ AboutXHighlights(dieMsg))
        /\ (xh.t # "null" /\ exitCode = ExitOK) => XHighlightsIntegersOK(xh)
        /\ (xh.t # "null" /\ ~XHighlightsIntegersOK(xh)) => exitCode = ExitInvalid

(***************************************************************************)
(* render.py.  Text is a sequence of tokens: a markup line, a placeholder  *)
(* of the template, a piece of input text, or the newline "\n".           *)
(* A render function returns [ok, s]: its string, or ok = FALSE when it    *)
(* raises.                                                                 *)
(***************************************************************************)
NL == "\n"
ROk(s) == [ok |-> TRUE, s |-> s, err |-> ""]
RErr(e) == [ok |-> FALSE, s |-> <<>>, err |-> e]

\* sep.join(parts)
RECURSIVE Join(_, _)
Join(parts, sep) ==
    IF Len(parts) = 0 THEN <<>>
    ELSE IF Len(parts) = 1 THEN parts[1]
    ELSE Join(SubSeq(parts, 1, Len(parts) \div 2), sep) \o <<sep>>
         \o Join(SubSeq(parts, Len(parts) \div 2 + 1, Len(parts)), sep)

\* The first failure of a sequence of results, or their strings joined.
FirstErr(rs) == rs[CHOOSE i \in 1..Len(rs) : ~rs[i].ok /\ \A j \in 1..(i - 1) : rs[j].ok]
JoinAll(rs, sep) ==
    IF \E i \in 1..Len(rs) : ~rs[i].ok THEN FirstErr(rs)
    ELSE ROk(Join([i \in 1..Len(rs) |-> rs[i].s], sep))

\* lines 36-43
EscTok(c) ==
    CASE c = "&"  -> "&amp;"
      [] c = "<"  -> "&lt;"
      [] c = ">"  -> "&gt;"
      [] c = "\"" -> "&quot;"
      [] c = "'"  -> "&#39;"
      [] OTHER    -> c
html_escape(s) == [i \in 1..Len(s) |-> EscTok(s[i])]

\* html_escape(str(d.get(key, default)))
EscField(d, key, dflt) == html_escape(PyStr(GetDefault(d, key, JStr(dflt))))

\* lines 51-56
source_link(src) ==
    LET name == EscField(src, "name", <<"source">>)
        url  == EscField(src, "url", <<>>)
    IN IF Len(url) > 0
       THEN <<"<a href=\"">> \o url \o <<"\" target=\"_blank\">">> \o name \o <<"</a>">>
       ELSE name

\* lines 46-57
render_sources(sources) ==
    IF ~Truthy(sources) THEN ROk(<<>>)
    ELSE IF ~Iterable(sources) THEN RErr("TypeError")
    ELSE IF \E i \in 1..Len(Iter(sources)) : Iter(sources)[i].t # "dict"
    THEN RErr("AttributeError")
    ELSE ROk(Join([i \in 1..Len(Iter(sources)) |-> source_link(Iter(sources)[i])], ", "))

\* lines 63-97: the card of one item
render_card(it, badge_color, tag) ==
    IF it.t # "dict" THEN RErr("AttributeError")
    ELSE
    LET title == EscField(it, "title", <<>>)
        when  == EscField(it, "time", <<>>)
        what  == EscField(it, "what", <<>>)
        why   == EscField(it, "why", <<>>)
        sources_html == render_sources(Or(GetDefault(it, "sources", JList(<<>>)), JList(<<>>)))
        color_style == IF Len(badge_color) > 0
                       THEN <<" style=\"background: ">> \o badge_color \o <<";\"">>
                       ELSE <<>>
        meta == (IF Len(tag) > 0
                 THEN << <<"<span class=\"tag\">">> \o html_escape(tag) \o <<"</span>">> >>
                 ELSE <<>>)
                \o (IF Len(when) > 0 THEN << <<"<span>">> \o when \o <<"</span>">> >> ELSE <<>>)
    IN IF ~sources_html.ok THEN sources_html
       ELSE ROk(Join(
            << <<"<div class=\"card\">">>,
               <<"<div class=\"card-headline\">">>,
               <<"<div class=\"card-badge\"">> \o color_style \o <<"></div>">>,
               <<"<h3 class=\"card-title\">">> \o title \o <<"</h3>">>,
               <<"</div>">> >>
            \o (IF Len(meta) > 0
                THEN << <<"<div class=\"card-meta\">">> \o Join(meta, NL) \o <<"</div>">> >>
                ELSE <<>>)
            \o << <<"<div class=\"card-content\">">> >>
            \o (IF Len(why) > 0 THEN << <<"<strong>why</strong>">> \o why >> ELSE <<>>)
            \o (IF Len(what) > 0
                THEN << <<"<div><strong>what</strong>">> \o what \o <<"</div>">> >>
                ELSE <<>>)
            \o << <<"</div>">> >>
            \o (IF Len(sources_html.s) > 0
                THEN << <<"<div class=\"card-sources\">">>, <<"sources:">> \o sources_html.s,
                        <<"</div>">> >>
                ELSE <<>>)
            \o << <<"</div>">> >>, NL))

\* lines 60-99
render_cards(items, badge_color, tag) ==
    LET its == Or(items, JList(<<>>)) IN
    IF ~Iterable(its) THEN RErr("TypeError")
    ELSE JoinAll([i \in 1..Len(Iter(its)) |-> render_card(Iter(its)[i], badge_color, tag)], NL)

\* v[:n]: lists and strings can be sliced, nothing else
Sliceable(v) == v.t \in {"list", "str"}
Min(a, b) == IF a <= b THEN a ELSE b
Slice(v, n) ==
    IF v.t = "list" THEN JList(SubSeq(v.l, 1, Min(n, Len(v.l))))
    ELSE JStr(SubSeq(v.s, 1, Min(n, Len(v.s))))

MaxXShown == 12

\* lines 114-141: one X item
render_x_item(x) ==
    IF x.t # "dict" THEN RErr("AttributeError")
    ELSE
    LET author == EscField(x, "author", <<>>)
        handle == EscField(x, "handle", <<>>)
        text   == EscField(x, "text", <<>>)
        url    == EscField(x, "url", <<>>)
        eng == [i \in 1..Len(ENGAGEMENT_KEYS) |->
                   IF IsInt(Get(x, ENGAGEMENT_KEYS[i]))
                   THEN <<ENGAGEMENT_KEYS[i] \o ":">> \o PyStr(Get(x, ENGAGEMENT_KEYS[i]))
                   ELSE <<>>]
        eng_html == Join(SelectSeq(eng, LAMBDA e : Len(e) > 0), " | ")
    IN ROk(Join(
         << <<"<div class=\"x-item\">">>,
            <<"<div class=\"x-avatar\"></div>">>,
            <<"<div class=\"x-content\">">>,
            <<"<div class=\"x-author\">">> \o author \o <<"<span class=\"x-handle\">">>
                \o handle \o <<"</span></div>">>,
            <<"<div class=\"x-text\">">> \o text \o <<"</div>">> >>
         \o (IF Len(eng_html) > 0
             THEN << <<"<div class=\"x-engagement\">">> \o eng_html \o <<"</div>">> >>
             ELSE <<>>)
         \o (IF Len(url) > 0
             THEN << <<"<div><a href=\"">> \o url \o <<"\" target=\"_blank\">open</a></div>">> >>
             ELSE <<>>)
         \o << <<"</div>">>, <<"</div>">> >>, NL))

\* lines 102-144
render_x_highlights(items_in) ==
    LET items == Or(items_in, JList(<<>>))
        head == << <<"<!-- X highlights -->">>, <<"<div class=\"x-highlight\">">>,
                   <<"<h4>X highlights</h4>">> >>
    IN IF ~Truthy(items)
       THEN ROk(Join(head \o << <<"<div class=\"x-item\">none today</div>">>, <<"</div>">> >>, NL))
       ELSE IF ~Sliceable(items) THEN RErr("TypeError")
       ELSE LET shown == Iter(Slice(items, MaxXShown))
                body == JoinAll([i \in 1..Len(shown) |-> render_x_item(shown[i])], NL)
            IN IF ~body.ok THEN body
               ELSE ROk(Join(head \o <<body.s, <<"</div>">> >>, NL))

\* len(v): defined for lists, strings and dicts
HasLen(v) == v.t \in {"list", "str", "dict"}
PyLen(v) == CASE v.t = "list" -> Len(v.l) [] v.t = "str" -> Len(v.s) [] v.t = "dict" -> Len(v.o)
                [] OTHER -> 0

\* The strings that are not empty, joined; or the first failure.
NonEmpty(x) == Len(x) > 0
JoinNonEmpty(rs, sep) ==
    IF \E i \in 1..Len(rs) : ~rs[i].ok THEN FirstErr(rs)
    ELSE ROk(Join(SelectSeq([i \in 1..Len(rs) |-> rs[i].s], NonEmpty), sep))

Li(body) == <<"<li><div>">> \o body \o <<"</div></li>">>
Box(title, body) ==
    Join(<< <<"<div class=\"highlight-box\">">>,
            <<"<div class=\"highlight-title\">" \o title \o "</div>">> >>
         \o body \o << <<"</div>">> >>, NL)
Tags(mark, vs) ==
    Join([i \in 1..Len(vs) |->
             <<"<span class=\"tag\">" \o mark>> \o html_escape(PyStr(vs[i])) \o <<"</span>">>], " ")

\* lines 152-175: the per-section counts
SECTION_LABELS == <<"Releases", "Updates", "OpenSource", "Benchmarks", "Business", "Risks">>
self_check_counts(sections) ==
    IF sections.t # "dict" THEN RErr("AttributeError")
    ELSE IF \E i \in 1..Len(REQUIRED_SECTIONS) :
                ~HasLen(Or(Get(sections, REQUIRED_SECTIONS[i]), JList(<<>>)))
    THEN RErr("TypeError")
    ELSE ROk(Box("counts",
            << <<"<ul class=\"highlight-list\">">> >>
            \o [i \in 1..Len(REQUIRED_SECTIONS) |->
                   Li(<<SECTION_LABELS[i] \o ": ",
                        ToString(PyLen(Or(Get(sections, REQUIRED_SECTIONS[i]), JList(<<>>))))>>)]
            \o << <<"</ul>">> >>))

\* lines 178-195
self_check_vendors(daily, sc) ==
    IF sc.t # "dict" THEN RErr("AttributeError")
    ELSE LET ca == Or(Get(sc, "coverage_analysis"), JDict(<<>>)) IN
    IF ca.t # "dict" THEN RErr("AttributeError")
    ELSE LET hit_vendors == Or(Or(Get(ca, "hit_vendors"), Get(daily, "vendorsHit")), JList(<<>>))
             missed_vendors == Or(Get(ca, "missed_vendors"), JList(<<>>))
             missed_reason == Or(Get(ca, "missed_reason"), JStr(<<>>))
         IN IF ~(Truthy(hit_vendors) \/ Truthy(missed_vendors)) THEN ROk(<<>>)
            ELSE IF Truthy(hit_vendors) /\ ~Iterable(hit_vendors) THEN RErr("TypeError")
            ELSE IF Truthy(missed_vendors) /\ ~Iterable(missed_vendors) THEN RErr("TypeError")
            ELSE ROk(Box("vendors",
                    << <<"<p>">> >>
                    \o (IF Truthy(hit_vendors) THEN <<Tags("hit ", Iter(hit_vendors))>> ELSE <<>>)
                    \o (IF Truthy(missed_vendors)
                        THEN << <<"<br/>">>, Tags("missed ", Iter(missed_vendors)) >>
                        ELSE <<>>)
                    \o << <<"</p>">> >>
                    \o (IF Truthy(missed_reason)
                        THEN << <<"<p>">> \o html_escape(PyStr(missed_reason)) \o <<"</p>">> >>
                        ELSE <<>>)))

\* lines 198-213
self_check_freshness(sc) ==
    LET fc == Or(Get(sc, "freshness_check"), JDict(<<>>)) IN
    IF ~Truthy(fc) THEN ROk(<<>>)
    ELSE IF fc.t # "dict" THEN RErr("AttributeError")
    ELSE ROk(Box("freshness",
            << <<"<ul class=\"highlight-list\">">>,
               Li(<<"target ">> \o PyStr(GetDefault(fc, "target_headlines", S("?")))
                  \o <<" actual ">> \o PyStr(GetDefault(fc, "actual_headlines", S("?")))),
               Li(<<IF Truthy(GetDefault(fc, "supplement_searches_triggered", JBool(FALSE)))
                    THEN "supplement: triggered" ELSE "supplement: not triggered">>
                  \o PyStr(GetDefault(fc, "supplement_searches_count", JNum(0)))) >>
            \o (IF Truthy(GetDefault(fc, "reason", JStr(<<>>)))
                THEN <<Li(html_escape(PyStr(Get(fc, "reason"))))>>
                ELSE <<>>)
            \o << <<"</ul>">> >>))

\* lines 216-231
self_check_bird(sc) ==
    LET bs == Or(Get(sc, "bird_status"), JDict(<<>>)) IN
    IF ~Truthy(bs) THEN ROk(<<>>)
    ELSE IF bs.t # "dict" THEN RErr("AttributeError")
    ELSE ROk(Box("bird",
            << <<"<ul class=\"highlight-list\">">>,
               Li(<<IF Truthy(GetDefault(bs, "available", JBool(FALSE)))
                    THEN "available: yes" ELSE "available: no",
                    IF Truthy(GetDefault(bs, "cookies_found", JBool(FALSE)))
                    THEN "cookies: yes" ELSE "cookies: no">>) >>
            \o (IF Truthy(GetDefault(bs, "fallback", JStr(<<>>)))
                THEN <<Li(<<"Fallback: ">> \o html_escape(PyStr(Get(bs, "fallback"))))>>
                ELSE <<>>)
            \o (IF Truthy(GetDefault(bs, "x_highlights_source", JStr(<<>>)))
                THEN <<Li(html_escape(PyStr(Get(bs, "x_highlights_source"))))>>
                ELSE <<>>)
            \o << <<"</ul>">> >>))

\* lines 240-251: one dedupe key
dedupe_key_lines(dk) ==
    IF dk.t = "dict"
    THEN << <<"<li><div><strong>">> \o EscField(dk, "key", <<>>) \o <<"</strong>">>
               \o EscField(dk, "entity", <<>>) \o <<"/">> \o EscField(dk, "product", <<>>) >>
         \o (IF Truthy(GetDefault(dk, "sources_merged", JStr(<<>>)))
             THEN << <<"(">> \o PyStr(Get(dk, "sources_merged")) \o <<" merged)">> >>
             ELSE <<>>)
         \o << <<"</div></li>">> >>
    ELSE <<Li(html_escape(PyStr(dk)))>>

\* lines 234-260
self_check_dedupe(daily, sc) ==
    LET dedup_keys == Or(Get(sc, "dedupe_keys"), JList(<<>>))
        dedup_strs == Or(Get(daily, "dedupKeys"), JList(<<>>))
    IN IF Truthy(dedup_keys)
       THEN IF ~Iterable(dedup_keys) THEN RErr("TypeError")
            ELSE ROk(Box("dedupe",
                    << <<"<ul class=\"highlight-list\">">> >>
                    \o Concat([i \in 1..Len(Iter(dedup_keys)) |->
                                  dedupe_key_lines(Iter(dedup_keys)[i])])
                    \o << <<"</ul>">> >>))
       ELSE IF Truthy(dedup_strs)
       THEN IF ~Iterable(dedup_strs) THEN RErr("TypeError")
            ELSE ROk(Box("dedupe",
                    << <<"<p>">>,
                       html_escape(Join([i \in 1..Len(Iter(dedup_strs)) |->
                                            PyStr(Iter(dedup_strs)[i])], " | ")),
                       <<"</p>">> >>))
       ELSE ROk(<<>>)

\* lines 268-274: one downgraded entry
downgraded_line(de) ==
    IF de.t = "dict"
    THEN Li(<<"<strong>">> \o EscField(de, "title", <<>>) \o <<"</strong>">>
            \o EscField(de, "reason", <<>>))
    ELSE Li(html_escape(PyStr(de)))

\* lines 263-276
self_check_downgraded(sc) ==
    LET downgraded == Or(Get(sc, "downgraded_entries"), JList(<<>>)) IN
    IF ~Truthy(downgraded) THEN ROk(<<>>)
    ELSE IF ~Iterable(downgraded) THEN RErr("TypeError")
    ELSE ROk(Box("downgraded",
            << <<"<ul class=\"highlight-list\">">> >>
            \o [i \in 1..Len(Iter(downgraded)) |-> downgraded_line(Iter(downgraded)[i])]
            \o << <<"</ul>">> >>))

\* lines 147-279
render_self_check(daily) ==
    LET sections == Or(Get(daily, "sections"), JDict(<<>>))
        sc == Or(Get(daily, "self_check"), JDict(<<>>))
    IN JoinNonEmpty(
         << ROk(<<"<!-- self check -->", NL, "<section class=\"section\">", NL,
                  "<h2 class=\"section-title\">self check</h2>">>),
            self_check_counts(sections),
            self_check_vendors(daily, sc),
            IF sc.t # "dict" THEN RErr("AttributeError") ELSE self_check_freshness(sc),
            IF sc.t # "dict" THEN RErr("AttributeError") ELSE self_check_bird(sc),
            IF sc.t # "dict" THEN RErr("AttributeError") ELSE self_check_dedupe(daily, sc),
            IF sc.t # "dict" THEN RErr("AttributeError") ELSE self_check_downgraded(sc),
            ROk(<<"</section>">>) >>, NL)

(***************************************************************************)
(* render.py main()                                                        *)
(***************************************************************************)
\* Mutation: a missing file is an error instead of the default {}.
load_json_without_default(file) ==
    IF file \in {Missing, Invalid} THEN [ok |-> FALSE, v |-> JNull]
    ELSE [ok |-> TRUE, v |-> file]

\* lines 30-33: load_json(path, default={}) of a file that is Missing,
\* Invalid or holds a JSON value
load_json(file) ==
    IF file = Missing THEN [ok |-> TRUE, v |-> JDict(<<>>)]
    ELSE IF file = Invalid THEN [ok |-> FALSE, v |-> JNull]
    ELSE [ok |-> TRUE, v |-> file]

\* datetime.utcnow().strftime("%Y-%m-%d")
Today(now) == <<DateTokens[now \div 24]>>

\* line 306
render_date(daily, now) == PyStr(Or(Get(daily, "date"), JStr(Today(now))))

\* lines 309-315: the header date is the parsed date, or today when the
\* date does not parse
HeaderDay(d, now) == IF IsDate(d) THEN d ELSE Today(now)
date_human(d, now) == <<"human:">> \o HeaderDay(d, now)
date_day(d, now) == <<"day:">> \o HeaderDay(d, now)
date_month(d, now) == <<"month:">> \o HeaderDay(d, now)
\* line 394
now_utc(now) == <<DateTokens[now \div 24], ToString(now % 24) \o ":00 UTC">>

\* line 341: the first truthy of daily.techmeme_headlines,
\* techmeme.headlines, techmeme.stories, or []
tm_list_of(daily, techmeme) ==
    IF Truthy(Get(daily, "techmeme_headlines"))
    THEN [ok |-> TRUE, v |-> Get(daily, "techmeme_headlines")]
    ELSE IF techmeme.t # "dict" THEN [ok |-> FALSE, v |-> JNull]
    ELSE [ok |-> TRUE,
          v |-> Or(Or(Get(techmeme, "headlines"), Get(techmeme, "stories")), JList(<<>>))]

\* lines 350-356: one entry
techmeme_entry(it) ==
    IF it.t = "str"
    THEN ROk(IF Len(Strip(it.s)) > 0 THEN Li(html_escape(Strip(it.s))) ELSE <<>>)
    ELSE LET d == Or(it, JDict(<<>>)) IN
         IF d.t # "dict" THEN RErr("AttributeError")
         ELSE LET text == PyStr(Or(Or(Get(d, "text"), Get(d, "title")), JStr(<<>>))) IN
              ROk(IF Len(Strip(text)) > 0 THEN Li(html_escape(Strip(text))) ELSE <<>>)

\* lines 343-359
techmeme_section(tm_list) ==
    IF ~Truthy(tm_list) THEN ROk(<<>>)
    ELSE IF ~Sliceable(tm_list) THEN RErr("TypeError")
    ELSE LET shown == Iter(Slice(tm_list, TechmemeShown)) IN
         JoinNonEmpty(
            << ROk(<<"<!-- TechMeme -->", NL, "<section class=\"section\">", NL,
                     "<h2 class=\"section-title\">TechMeme</h2>", NL,
                     "<div class=\"highlight-box\">", NL, "<ul class=\"highlight-list\">">>) >>
            \o [i \in 1..Len(shown) |-> techmeme_entry(shown[i])]
            \o << ROk(<<"</ul>", NL, "</div>", NL, "</section>">>) >>, NL)

\* render_cards(sections.get(key) or [], badge_color, tag)
section_cards(sections, key, badge_color, tag) ==
    IF sections.t # "dict" THEN RErr("AttributeError")
    ELSE render_cards(Or(Get(sections, key), JList(<<>>)), <<badge_color>>, <<tag>>)

\* line 331
headline_cards(daily) ==
    LET h == Or(Get(daily, "headlines"), JList(<<>>)) IN
    IF ~Sliceable(h) THEN RErr("TypeError")
    ELSE render_cards(Slice(h, HeadlinesShown), <<>>, <<>>)

KeepPart(p) == Len(p) > 0 /\ Len(Strip(p)) > 0

\* lines 319-392: content_html
content_html(daily, technemeF) ==
    LET sections == Or(Get(daily, "sections"), JDict(<<>>))
        techmeme == load_json(technemeF)
        tm_list  == IF techmeme.ok THEN tm_list_of(daily, techmeme.v)
                    ELSE [ok |-> FALSE, v |-> JNull]
        parts ==
          << ROk(<<"<!-- headlines -->">>), ROk(<<"<section class=\"section\">">>),
             ROk(<<"<h2 class=\"section-title\">headlines</h2>">>),
             headline_cards(daily),
             ROk(<<"</section>">>),
             IF techmeme.ok THEN ROk(<<>>) ELSE RErr("JSONDecodeError"),
             IF tm_list.ok THEN techmeme_section(tm_list.v) ELSE RErr("AttributeError"),
             ROk(<<"<!-- models and tools -->">>), ROk(<<"<section class=\"section\">">>),
             ROk(<<"<h2 class=\"section-title\">models and tools</h2>">>),
             section_cards(sections, "releases", "#e85d04", "release"),
             section_cards(sections, "updates", "#4285f4", "update"),
             section_cards(sections, "opensource", "#10a37f", "opensource"),
             section_cards(sections, "benchmarks", "#8e44ad", "benchmark"),
             render_x_highlights(Get(daily, "x_highlights")),
             ROk(<<"</section>">>),
             ROk(<<"<!-- business -->">>), ROk(<<"<section class=\"section\">">>),
             ROk(<<"<h2 class=\"section-title\">business</h2>">>),
             section_cards(sections, "business", "#1f1d1a", "business"),
             ROk(<<"</section>">>),
             ROk(<<"<!-- risks -->">>), ROk(<<"<section class=\"section\">">>),
             ROk(<<"<h2 class=\"section-title\">risks</h2>">>),
             section_cards(sections, "risks", "#c0392b", "risk"),
             ROk(<<"</section>">>),
             render_self_check(daily) >>
    IN IF \E i \in 1..Len(parts) : ~parts[i].ok THEN FirstErr(parts)
       ELSE ROk(Join(SelectSeq([i \in 1..Len(parts) |-> parts[i].s], KeepPart), NL))

\* str.replace(placeholder, text): every occurrence
Replace(str, placeholder, text) ==
    Concat([i \in 1..Len(str) |-> IF str[i] = placeholder THEN text ELSE <<str[i]>>])

\* lines 396-401
substitute(tpl, d, content, now) ==
    Replace(
      Replace(
        Replace(
          Replace(
            Replace(tpl, "{{DATE_HUMAN}}", html_escape(date_human(d, now))),
            "{{DATE_DAY}}", html_escape(date_day(d, now))),
          "{{DATE_MONTH}}", html_escape(date_month(d, now))),
        "{{CONTENT}}", content),
      "{{GENERATED_AT_UTC}}", html_escape(now_utc(now)))

(***************************************************************************)
(* Files.  A path is a directory and a stem (the name without ".html");    *)
(* a stem is a token sequence, like the date it comes from.                *)
(***************************************************************************)
ArchiveFile(stem) == [dir |-> "archive", stem |-> stem]
IndexPath == [dir |-> "root", stem |-> <<"index">>]
WriteText(fs, path, text) ==
    [q \in (DOMAIN fs) \cup {path} |-> IF q = path THEN text ELSE fs[q]]
ArchiveStems(fs) == {q.stem : q \in {r \in DOMAIN fs : r.dir = "archive"}}

\* archive/<date>.html can be written unless the date names a directory
\* that does not exist
CanWriteArchive(d) == \A i \in 1..Len(d) : d[i] # "/"

\* The order of file names: tokens in ASCII order; a name ends in ".html".
TokenOrder ==
    <<" ", "-old", "..", ".html", "/", "02", "2026", "2026-02-10", "2026-02-11", "2026-02-12",
      "2026-02-13", "2026-02-14", "2026-02-15", "2026-02-16", "20260214", "index", "notes",
      "today">>
Rank(tok) ==
    IF \E i \in 1..Len(TokenOrder) : TokenOrder[i] = tok
    THEN CHOOSE i \in 1..Len(TokenOrder) : TokenOrder[i] = tok
    ELSE 0
RECURSIVE SeqLess(_, _)
SeqLess(a, b) ==
    IF Len(b) = 0 THEN FALSE
    ELSE IF Len(a) = 0 THEN TRUE
    ELSE IF Rank(Head(a)) # Rank(Head(b)) THEN Rank(Head(a)) < Rank(Head(b))
    ELSE SeqLess(Tail(a), Tail(b))
NameLess(stemA, stemB) == SeqLess(stemA \o <<".html">>, stemB \o <<".html">>)

\* sorted(ARCHIVE_DIR.glob("*.html"), reverse=True), as stems
RECURSIVE SortedDesc(_)
SortedDesc(stems) ==
    IF stems = {} THEN <<>>
    ELSE LET m == CHOOSE x \in stems : \A y \in stems : ~NameLess(x, y)
         IN <<m>> \o SortedDesc(stems \ {m})

\* re.match(r"\d{4}-\d{2}-\d{2}", stem): the stem starts with a date
StartsWithDate(stem) == Len(stem) > 0 /\ IsDate(<<stem[1]>>)

\* lines 290-298
nav_entry(stem, current_date) ==
    IF ~StartsWithDate(stem) THEN <<>>
    ELSE IF stem = current_date THEN <<"<span class=\"current\">">> \o stem \o <<"</span>">>
    ELSE <<"<a href=\"./archive/">> \o stem \o <<".html\">">> \o stem \o <<"</a>">>

\* lines 282-301
render_archive_nav(fs, current_date) ==
    LET archive_files == SortedDesc(ArchiveStems(fs)) IN
    IF Len(archive_files) = 0 THEN <<>>
    ELSE Join(<< <<"<div class=\"nav\">">>, <<"<div class=\"nav-row\">">> >>
              \o SelectSeq([i \in 1..Len(archive_files) |->
                               nav_entry(archive_files[i], current_date)], NonEmpty)
              \o << <<"</div>">>, <<"</div>">> >>, NL)

\* line 409: index_out = out.replace("{{ARCHIVE_NAV}}", archive_nav)
index_out(page, archive_nav) == Replace(page, "{{ARCHIVE_NAV}}", archive_nav)

\* Mutation: the archive page keeps its {{ARCHIVE_NAV}} placeholder, as the
\* first write of line 405 left it.
out_final_without_nav(page, archive_nav) == page

\* line 413: out_final = out.replace("{{ARCHIVE_NAV}}", archive_nav)
out_final(page, archive_nav) == Replace(page, "{{ARCHIVE_NAV}}", archive_nav)

\* data/daily.json as main() reads it (line 305)
Daily == load_json(dailyFile).v

RaiseIn(e) ==
    /\ pc' = "done"
    /\ exitCode' = ExitTraceback
    /\ traceback' = e

\* Where render.py ends: the process is over, or, when migrate_archives.py
\* runs it (subprocess.run, lines 266-271 there), control is back there.
AfterRender == IF renderRuns > 0 THEN "m_rendered" ELSE "done"
RenderRaise(e) ==
    /\ pc' = AfterRender
    /\ exitCode' = ExitTraceback
    /\ traceback' = e

\* lines 305-317: read daily.json and template.html, work out the date
RLoad ==
    /\ pc = "r_load"
    /\ IF ~load_json(dailyFile).ok THEN RenderRaise("JSONDecodeError") /\ UNCHANGED date
       ELSE IF Daily.t # "dict" THEN RenderRaise("AttributeError") /\ UNCHANGED date
       ELSE IF templateFile = Missing
       THEN RenderRaise("FileNotFoundError") /\ date' = render_date(Daily, nowHours)
       ELSE /\ pc' = "r_content"
            /\ date' = render_date(Daily, nowHours)
            /\ UNCHANGED <<exitCode, traceback>>
    /\ UNCHANGED <<dailyFile, nowHours, validateVars, fetchVars,
                   migrateVars, technemeFile, templateFile, files,
                   contentHtml, out>>

\* lines 319-392
RContent ==
    /\ pc = "r_content"
    /\ LET r == content_html(Daily, technemeFile) IN
       IF r.ok
       THEN /\ contentHtml' = r.s
            /\ pc' = "r_substitute"
            /\ UNCHANGED <<exitCode, traceback>>
       ELSE RenderRaise(r.err) /\ UNCHANGED contentHtml
    /\ UNCHANGED <<dailyFile, nowHours, validateVars, fetchVars,
                   migrateVars, technemeFile, templateFile, files,
                   date, out>>

\* lines 394-401
RSubstitute ==
    /\ pc = "r_substitute"
    /\ out' = substitute(templateFile, date, contentHtml, nowHours)
    /\ pc' = "r_write_archive"
    /\ UNCHANGED <<exitCode, traceback, dailyFile, nowHours, validateVars, fetchVars,
                   migrateVars, technemeFile,
                   templateFile, files, date, contentHtml>>

\* lines 403-405
RWriteArchive ==
    /\ pc = "r_write_archive"
    /\ IF CanWriteArchive(date)
       THEN /\ files' = WriteText(files, ArchiveFile(date), out)
            /\ pc' = "r_write_index"
            /\ UNCHANGED <<exitCode, traceback>>
       ELSE RenderRaise("FileNotFoundError") /\ UNCHANGED files
    /\ UNCHANGED <<dailyFile, nowHours, validateVars, fetchVars,
                   migrateVars, technemeFile, templateFile, date,
                   contentHtml, out>>

\* lines 408-410
RWriteIndex ==
    /\ pc = "r_write_index"
    /\ files' = WriteText(files, IndexPath, index_out(out, render_archive_nav(files, date)))
    /\ pc' = "r_write_final"
    /\ UNCHANGED <<exitCode, traceback, dailyFile, nowHours, validateVars, fetchVars,
                   migrateVars, technemeFile,
                   templateFile, date, contentHtml, out>>

\* lines 413-416; main() returns, the interpreter exits 0
RWriteFinal ==
    /\ pc = "r_write_final"
    /\ files' = WriteText(files, ArchiveFile(date),
                          out_final(out, render_archive_nav(files, date)))
    /\ pc' = AfterRender
    /\ exitCode' = ExitOK
    /\ UNCHANGED <<traceback, dailyFile, nowHours, validateVars, fetchVars,
                   migrateVars, technemeFile, templateFile,
                   date, contentHtml, out>>

(***************************************************************************)
(* The inputs of render.py: daily.json as above (or no document at all),   *)
(* techneme.json, template.html and what archive/ and index.html hold.     *)
(***************************************************************************)
MaxRenderDefects == 1

BaseTechneme == Missing
TechnemeAlts ==
    { Invalid, JDict(<<>>), JList(<<S("Story")>>),
      JDict(<<KV("headlines", JList(<<S("Story A"), JDict(<<KV("text", S("Story B"))>>)>>))>>),
      JDict(<<KV("stories", JList(<<JDict(<<KV("title", S("Story C")),
                                              KV("url", S("https://"))>>)>>))>>),
      JDict(<<KV("headlines", JList(<<>>)), KV("stories", JList(<<>>))>>),
      JDict(<<KV("headlines", JNum(7))>>) }

BaseTemplate ==
    <<"<html>", "{{DATE_HUMAN}}", "{{DATE_DAY}}", "{{DATE_MONTH}}", "<main>", "{{CONTENT}}",
      "</main>", "{{ARCHIVE_NAV}}", "<footer>", "{{GENERATED_AT_UTC}}", "</html>">>
TemplateAlts ==
    { Missing,
      <<"<html>", "{{DATE_HUMAN}}", "{{CONTENT}}", "{{GENERATED_AT_UTC}}", "</html>">>,
      <<"<html>", "{{ARCHIVE_NAV}}", "{{CONTENT}}", "{{ARCHIVE_NAV}}", "</html>">> }

OldPage == <<"<html>", "old page", "</html>">>
PagesOf(stems) == [q \in {ArchiveFile(st) : st \in stems} |-> OldPage]
BaseFiles == PagesOf({<<"2026-02-13">>})
FilesAlts ==
    { <<>>,
      PagesOf({<<"2026-02-13">>, <<"2026-02-14">>}),
      PagesOf({<<"2026-02-12">>, <<"2026-02-13", "-old">>, <<"2026-02-15">>}),
      PagesOf({<<"notes">>}),
      WriteText(PagesOf({<<"2026-02-13">>, <<"today">>}), IndexPath, OldPage) }

RenderFields == Fields \cup {"techmeme_headlines", "top", "techneme", "template", "files"}
RenderDefectSets == {G \in SUBSET RenderFields : Cardinality(G) <= MaxRenderDefects}

RenderChoicesWith(F) ==
    [ doc      : ChoicesWith(F),
      top      : Pick(F, "top", Absent, {Missing, Invalid} \cup TopLevelAlts),
      techneme : Pick(F, "techneme", BaseTechneme, TechnemeAlts),
      template : Pick(F, "template", BaseTemplate, TemplateAlts),
      files    : Pick(F, "files", BaseFiles, FilesAlts) ]

InitRender ==
    /\ pc = "r_load"
    /\ exitCode = Running
    /\ traceback = ""
    /\ nowHours \in NowChoices
    /\ dieMsg = <<>>
    /\ warnings = {}
    /\ okPrinted = FALSE
    /\ date = <<>>
    /\ contentHtml = <<>>
    /\ out = <<>>
    /\ \E F \in RenderDefectSets : \E c \in RenderChoicesWith(F) :
          /\ dailyFile = IF c.top = Absent THEN DocOf(c.doc) ELSE c.top
          /\ technemeFile = c.techneme
          /\ templateFile = c.template
          /\ files = c.files
    /\ FetchIdle
    /\ MigrateIdle

NextRender ==
    \/ RLoad
    \/ RContent
    \/ RSubstitute
    \/ RWriteArchive
    \/ RWriteIndex
    \/ RWriteFinal

SpecRender == InitRender /\ [][NextRender]_vars

(***************************************************************************)
(* Claims about render.py                                                  *)
(***************************************************************************)
Completed == Done /\ exitCode = ExitOK

HasToken(text, tok) == \E i \in 1..Len(text) : text[i] = tok
Contains(text, part) ==
    \E i \in 0..(Len(text) - Len(part)) : SubSeq(text, i + 1, i + Len(part)) = part

\* C1: after main() completes, index.html holds exactly what
\* archive/<date>.html holds, <date> being the date the run rendered,
\* whatever daily.json and the archive directory held before.
C1_IndexEqualsArchive ==
    Completed =>
        /\ IndexPath \in DOMAIN files
        /\ ArchiveFile(date) \in DOMAIN files
        /\ files[IndexPath] = files[ArchiveFile(date)]

\* A completed run whose template has the {{ARCHIVE_NAV}} placeholder and
\* whose archive already held a page of the rendered date and other pages:
\* the navigation was built and put into both pages.
C1_Witness ==
    /\ Completed
    /\ HasToken(templateFile, "{{ARCHIVE_NAV}}")
    /\ Cardinality(ArchiveStems(files)) >= 2
    /\ HasToken(files[IndexPath], "<span class=\"current\">")
    /\ ~HasToken(files[ArchiveFile(date)], "{{ARCHIVE_NAV}}")
    /\ files[ArchiveFile(date)] # OldPage

\* The optional parts of daily.json have the shapes render.py reads.
NullOr(v, t) == v.t \in {"null", t}
SelfCheckShapeOK(sc) ==
    \/ sc.t = "null"
    \/ /\ sc.t = "dict"
       /\ \A k \in {"coverage_analysis", "freshness_check", "bird_status"} :
             NullOr(Get(sc, k), "dict")
       /\ \A k \in {"dedupe_keys", "downgraded_entries"} : NullOr(Get(sc, k), "list")
TechmemeListOK(v) ==
    \/ v.t = "null"
    \/ /\ v.t = "list"
       /\ \A i \in 1..Len(v.l) : v.l[i].t \in {"str", "dict", "null"}
\* daily.json passes the validator's blocking checks, its optional parts
\* are well-shaped, its date can name a file, and template.html exists.
RenderInputsOK ==
    /\ dailyFile \notin {Missing, Invalid}
    /\ BlockingOK(dailyFile)
    /\ CanWriteArchive(Get(dailyFile, "date").s)
    /\ SelfCheckShapeOK(Get(dailyFile, "self_check"))
    /\ TechmemeListOK(Get(dailyFile, "techmeme_headlines"))
    /\ templateFile # Missing

\* No entry: the key is absent or null, or the list is empty.
NoEntries(v) == v.t = "null" \/ (v.t = "list" /\ Len(v.l) = 0)
NoTechmemeEntries ==
    /\ dailyFile \notin {Missing, Invalid}
    /\ dailyFile.t = "dict"
    /\ NoEntries(Get(dailyFile, "techmeme_headlines"))
    /\ \/ technemeFile = Missing
       \/ /\ technemeFile # Invalid
          /\ technemeFile.t = "dict"
          /\ NoEntries(Get(technemeFile, "headlines"))
          /\ NoEntries(Get(technemeFile, "stories"))
ContentRendered == pc \in {"r_substitute", "r_write_archive", "r_write_index", "r_write_final"}
TechmemeTokens == {"<!-- TechMeme -->", "<h2 class=\"section-title\">TechMeme</h2>"}

\* The placeholders of template.html
PLACEHOLDERS ==
    {"{{DATE_HUMAN}}", "{{DATE_DAY}}", "{{DATE_MONTH}}", "{{CONTENT}}", "{{GENERATED_AT_UTC}}",
     "{{ARCHIVE_NAV}}"}
PlaceholderFree(text) == \A i \in 1..Len(text) : text[i] \notin PLACEHOLDERS

\* C7: data/techneme.json is optional.  A run without the file, on
\* well-formed inputs, completes with both index.html and
\* archive/<date>.html written (holding the rendered content, when that
\* names no placeholder); and when neither
\* daily.techmeme_headlines nor techneme.json (headlines, stories) has an
\* entry, neither the rendered content nor a written page has a TechMeme
\* section.
C7_TechnemeOptional ==
    /\ (Done /\ technemeFile = Missing /\ RenderInputsOK) =>
          /\ exitCode = ExitOK
          /\ \A path \in {IndexPath, ArchiveFile(date)} :
                /\ path \in DOMAIN files
                /\ PlaceholderFree(contentHtml) => Contains(files[path], contentHtml)
    /\ ((ContentRendered \/ Completed) /\ NoTechmemeEntries) =>
          \A tok \in TechmemeTokens :
             /\ ~HasToken(contentHtml, tok)
             /\ Completed => ~HasToken(files[IndexPath], tok)

\* A completed run without techneme.json and without any TechMeme entry
\* that rendered headline cards into both pages.
C7_Witness ==
    /\ Completed
    /\ technemeFile = Missing
    /\ RenderInputsOK
    /\ NoTechmemeEntries
    /\ HasToken(contentHtml, "<!-- headlines -->")
    /\ Contains(files[IndexPath], contentHtml)
    /\ Contains(files[ArchiveFile(date)], contentHtml)

\* The first position of a token in a text (0 when it is not there).
FirstIndex(text, tok) ==
    IF HasToken(text, tok)
    THEN CHOOSE i \in 1..Len(text) :
            text[i] = tok /\ \A j \in 1..(i - 1) : text[j] # tok
    ELSE 0
\* What the headlines section of the content holds between its title line
\* and its closing tag: the cards.
HeadlinesSection(text) ==
    SubSeq(text, FirstIndex(text, "<h2 class=\"section-title\">headlines</h2>") + 2,
                 FirstIndex(text, "</section>") - 2)
\* "by default only the first 3 entries" (the comment of line 327)
DefaultHeadlinesShown == 3
\* The cards of the first n headlines of the document, in input order.
FirstHeadlineCards(daily, n) ==
    render_cards(Slice(Or(Get(daily, "headlines"), JList(<<>>)), n), <<>>, <<>>)

\* C12: the headlines section of the rendered content holds the cards of
\* the first 3 entries of daily.headlines, in input order, and no other
\* card, however many headlines the document has.
C12_HeadlinesFirstThree ==
    ContentRendered =>
        /\ FirstHeadlineCards(Daily, DefaultHeadlinesShown).ok
        /\ HeadlinesSection(contentHtml) = FirstHeadlineCards(Daily, DefaultHeadlinesShown).s

(***************************************************************************)
(* fetch_sources.py                                                        *)
(*                                                                         *)
(* What a URL answers is either an exception inside urlopen/read/decode    *)
(* (Fail) or the decoded text.  A text is known by what each parser of     *)
(* the script makes of it: json.loads (a value, or Invalid), ET.fromstring *)
(* with findall (the entries, or a ParseError), the split on               *)
(* <article class="Box-row" (the articles) and extract_description (og).   *)
(***************************************************************************)
Fail == [kind |-> "fail"]
NoneText == [kind |-> "none"]
ParseError == [ok |-> FALSE, entries |-> <<>>]
Parsed(entries) == [ok |-> TRUE, entries |-> entries]
Text(empty, json, xml, articles, og) ==
    [kind |-> "text", empty |-> empty, json |-> json, xml |-> xml, articles |-> articles,
     og |-> og]
EmptyText == Text(TRUE, Invalid, ParseError, <<>>, <<>>)
Garbage == Text(FALSE, Invalid, ParseError, <<>>, <<>>)
JsonText(v) == Text(FALSE, v, ParseError, <<>>, <<>>)
XmlText(entries) == Text(FALSE, Invalid, Parsed(entries), <<>>, <<>>)
HtmlText(articles, og) == Text(FALSE, Invalid, ParseError, articles, og)

\* lines 30-43: the text, or None when anything in the try block raises
fetch_url(answer) == IF answer.kind = "fail" THEN NoneText ELSE answer

\* `not content` for what fetch_url returns
Blank(content) == content.kind = "none" \/ content.empty

DescLimit == 300
Take(s, n) == SubSeq(s, 1, Min(n, Len(s)))

\* lines 46-69
extract_description(html) == IF Blank(html) THEN <<>> ELSE Strip(html.og)

\* lines 72-80: the parsed value, or None
fetch_json(answer) ==
    LET content == fetch_url(answer) IN
    IF ~Blank(content) /\ content.json # Invalid THEN content.json ELSE JNull

\* What a fetcher call gives: the items it returns or the exception it
\* lets through, and whether it got as far as fetching its primary URL.
Ret(items, fetched) == [ok |-> TRUE, items |-> items, err |-> "", fetched |-> fetched]
Exc(e, fetched)     == [ok |-> FALSE, items |-> <<>>, err |-> e, fetched |-> fetched]

IntOf(v) == IF v.t = "bool" THEN (IF v.b THEN 1 ELSE 0) ELSE v.n

\* fetch_url(item["url"], timeout=10): a url that is no string makes
\* Request raise inside the try block
UrlAnswer(url, answer) == IF url.t = "str" THEN answer ELSE Fail

HNScan == 30
HNMinScore == 100
DefaultLimit == 10

\* The answer of https://hacker-news.firebaseio.com/v0/item/<sid>.json
ItemAnswer(n, sid) == IF sid \in DOMAIN n.hn_item THEN n.hn_item[sid] ELSE JsonText(JNull)

\* lines 107-121
hn_item(story, sid, n, fetch_desc) ==
    LET url  == GetDefault(story, "url", JStr(<<>>))
        html == fetch_url(UrlAnswer(url, n.article))
    IN JDict(<<KV("title", GetDefault(story, "title", JStr(<<>>))),
               KV("url", url),
               KV("score", GetDefault(story, "score", JNum(0))),
               KV("by", GetDefault(story, "by", JStr(<<>>))),
               KV("time", JStr(<<"iso:", ToString(IntOf(GetDefault(story, "time", JNum(0))))>>)),
               KV("comments", JStr(<<"https://news.ycombinator.com/item?id=">> \o PyStr(sid))),
               KV("description",
                  IF Truthy(fetch_desc) /\ ~Blank(html)
                  THEN JStr(Take(extract_description(html), DescLimit))
                  ELSE JStr(<<>>))>>)

\* lines 99-123: the loop over story_ids[:30], from position i on
RECURSIVE hn_stories(_, _, _, _, _)
hn_stories(config, n, sids, i, items) ==
    LET min_score  == GetDefault(config, "min_score", JNum(HNMinScore))
        limit      == GetDefault(config, "limit", JNum(DefaultLimit))
        fetch_desc == GetDefault(config, "fetch_description", JBool(TRUE))
    IN
    IF i > Len(sids) THEN Ret(items, TRUE)
    ELSE IF ~IsInt(limit) THEN Exc("TypeError", TRUE)
    ELSE IF Len(items) >= IntOf(limit) THEN Ret(items, TRUE)
    ELSE LET story == fetch_json(ItemAnswer(n, sids[i])) IN
         IF ~Truthy(story) THEN hn_stories(config, n, sids, i + 1, items)
         ELSE IF story.t # "dict" THEN Exc("AttributeError", TRUE)
         ELSE IF ~IsInt(GetDefault(story, "score", JNum(0))) \/ ~IsInt(min_score)
         THEN Exc("TypeError", TRUE)
         ELSE IF IntOf(GetDefault(story, "score", JNum(0))) < IntOf(min_score)
                 \/ ~Truthy(Get(story, "url"))
         THEN hn_stories(config, n, sids, i + 1, items)
         ELSE IF ~IsInt(GetDefault(story, "time", JNum(0))) THEN Exc("TypeError", TRUE)
         ELSE hn_stories(config, n, sids, i + 1,
                         Append(items, hn_item(story, sids[i], n, fetch_desc)))

\* Mutation: lines 91-92 (`if not story_ids: return []`) are gone.
fetch_hackernews_without_check(config, n) ==
    IF config.t # "dict" THEN Exc("AttributeError", FALSE)
    ELSE LET story_ids == fetch_json(n.hn_top) IN
         IF ~Sliceable(story_ids) THEN Exc("TypeError", TRUE)
         ELSE hn_stories(config, n, Iter(Slice(story_ids, HNScan)), 1, <<>>)

\* lines 83-125
fetch_hackernews(config, n) ==
    IF config.t # "dict" THEN Exc("AttributeError", FALSE)
    ELSE LET story_ids == fetch_json(n.hn_top) IN
         IF ~Truthy(story_ids) THEN Ret(<<>>, TRUE)
         ELSE IF ~Sliceable(story_ids) THEN Exc("TypeError", TRUE)
         ELSE hn_stories(config, n, Iter(Slice(story_ids, HNScan)), 1, <<>>)

RedditMinScore == 50

\* lines 146-154
reddit_item(post) ==
    JDict(<<KV("title", GetDefault(post, "title", JStr(<<>>))),
            KV("url", GetDefault(post, "url", JStr(<<>>))),
            KV("score", GetDefault(post, "score", JNum(0))),
            KV("author", GetDefault(post, "author", JStr(<<>>))),
            KV("subreddit", GetDefault(post, "subreddit", JStr(<<>>))),
            KV("num_comments", GetDefault(post, "num_comments", JNum(0))),
            KV("permalink", JStr(<<"https://reddit.com">>
                                 \o PyStr(GetDefault(post, "permalink", JStr(<<>>)))))>>)

\* lines 143-157: the loop over the children, from position i on
RECURSIVE reddit_posts(_, _, _, _)
reddit_posts(limit, children, i, items) ==
    IF i > Len(children) THEN Ret(items, TRUE)
    ELSE IF children[i].t # "dict" THEN Exc("AttributeError", TRUE)
    ELSE LET post == GetDefault(children[i], "data", JDict(<<>>)) IN
         IF post.t # "dict" THEN Exc("AttributeError", TRUE)
         ELSE IF ~IsInt(GetDefault(post, "score", JNum(0))) THEN Exc("TypeError", TRUE)
         ELSE LET items2 == IF IntOf(GetDefault(post, "score", JNum(0))) >= RedditMinScore
                            THEN Append(items, reddit_item(post)) ELSE items
              IN IF ~IsInt(limit) THEN Exc("TypeError", TRUE)
                 ELSE IF Len(items2) >= IntOf(limit) THEN Ret(items2, TRUE)
                 ELSE reddit_posts(limit, children, i + 1, items2)

\* `"data" in data`: a key of a dict, an element of a list, a part of a string
InValue(tok, v) ==
    CASE v.t = "dict" -> HasKey(v, tok)
      [] v.t = "list" -> \E i \in 1..Len(v.l) : v.l[i] = S(tok)
      [] v.t = "str"  -> \E i \in 1..Len(v.s) : v.s[i] = tok
      [] OTHER        -> FALSE

\* lines 128-159
fetch_reddit(config, n) ==
    IF config.t # "dict" THEN Exc("AttributeError", FALSE)
    ELSE LET limit == GetDefault(config, "limit", JNum(DefaultLimit))
             data  == fetch_json(n.reddit)
         IN
         IF limit.t \in {"null", "dict"} THEN Exc("TypeError", FALSE)
         ELSE IF ~Truthy(data) THEN Ret(<<>>, TRUE)
         ELSE IF ~Iterable(data) THEN Exc("TypeError", TRUE)
         ELSE IF ~InValue("data", data) THEN Ret(<<>>, TRUE)
         ELSE IF data.t # "dict" THEN Exc("TypeError", TRUE)
         ELSE IF Get(data, "data").t # "dict" THEN Exc("AttributeError", TRUE)
         ELSE LET children == GetDefault(Get(data, "data"), "children", JList(<<>>)) IN
              IF ~Iterable(children) THEN Exc("TypeError", TRUE)
              ELSE reddit_posts(limit, Iter(children), 1, <<>>)

\* One <article class="Box-row" ...> piece of the trending page, by what
\* the regular expressions of lines 188-218 find in it (<<>>: no match).
Article(repo, desc, stars, lang) ==
    [repo |-> repo, desc |-> desc, stars |-> stars, lang |-> lang]

\* lines 200-203: newlines and the three HTML entities
Unescaped(tok) ==
    CASE tok = "\n"    -> " "
      [] tok = "&amp;" -> "&"
      [] tok = "&lt;"  -> "<"
      [] tok = "&gt;"  -> ">"
      [] OTHER         -> tok
clean_description(desc) == LET s == Strip(desc) IN [i \in 1..Len(s) |-> Unescaped(s[i])]

NotComma(tok) == tok # ","
\* repo_path.split("/")[-1]
RECURSIVE LastSegment(_)
LastSegment(path) ==
    IF \E i \in 1..Len(path) : path[i] = "/"
    THEN LastSegment(Tail(path))
    ELSE path

GitHubLimit == 5

\* lines 198-227
github_item(a, n, fetch_desc) ==
    LET d1        == clean_description(a.desc)
        repo_html == fetch_url(n.repo)
        desc      == IF Len(d1) = 0 /\ Truthy(fetch_desc) /\ ~Blank(repo_html)
                     THEN Take(extract_description(repo_html), DescLimit)
                     ELSE d1
    IN JDict(<<KV("repo", JStr(Strip(a.repo))),
               KV("name", JStr(LastSegment(Strip(a.repo)))),
               KV("url", JStr(<<"https://github.com/">> \o Strip(a.repo))),
               KV("description", JStr(desc)),
               KV("stars_today",
                  JStr(IF Len(a.stars) > 0 THEN SelectSeq(a.stars, NotComma) ELSE <<"0">>)),
               KV("language", JStr(Strip(a.lang)))>>)

\* lines 183-227: the loop over articles[1:], from position i on
RECURSIVE github_articles(_, _, _, _, _)
github_articles(config, n, articles, i, items) ==
    LET limit      == GetDefault(config, "limit", JNum(GitHubLimit))
        fetch_desc == GetDefault(config, "fetch_description", JBool(TRUE))
    IN
    IF i > Len(articles) THEN Ret(items, TRUE)
    ELSE IF ~IsInt(limit) THEN Exc("TypeError", TRUE)
    ELSE IF Len(items) >= IntOf(limit) THEN Ret(items, TRUE)
    ELSE IF Len(articles[i].repo) = 0
            \/ Head(Strip(articles[i].repo) \o <<"">>) \in {"login", "sponsors"}
    THEN github_articles(config, n, articles, i + 1, items)
    ELSE github_articles(config, n, articles, i + 1,
                         Append(items, github_item(articles[i], n, fetch_desc)))

\* lines 162-229
fetch_github_trending(config, n) ==
    IF config.t # "dict" THEN Exc("AttributeError", FALSE)
    ELSE LET content == fetch_url(n.github) IN
         IF Blank(content) THEN Ret(<<>>, TRUE)
         ELSE github_articles(config, n, content.articles, 1, <<>>)

\* A child element of an RSS item or Atom entry as entry.find gives it:
\* None, or an element with its text (None when empty) and href attribute.
NoElem == [there |-> FALSE, text |-> JNull, href |-> JNull]
Elem(text) == [there |-> TRUE, text |-> text, href |-> JNull]
AtomLink(href) == [there |-> TRUE, text |-> JNull, href |-> href]
Entry(title, link, description, pubDate) ==
    [title |-> title, link |-> link, description |-> description, pubDate |-> pubDate]

\* lines 273-282: `elem.text if elem is not None else ""`
TextOf(elem) == IF elem.there THEN elem.text ELSE JStr(<<>>)
LinkOf(elem) == IF elem.there THEN Or(Or(elem.href, elem.text), JStr(<<>>)) ELSE JStr(<<>>)

\* lines 256-290: the loop over entries[:limit], from position i on
RECURSIVE rss_entries(_, _, _)
rss_entries(entries, i, items) ==
    IF i > Len(entries) THEN Ret(items, TRUE)
    ELSE LET title       == TextOf(entries[i].title)
             link        == LinkOf(entries[i].link)
             description == TextOf(entries[i].description)
             pubdate     == TextOf(entries[i].pubDate)
         IN
         IF ~(Truthy(title) /\ Truthy(link)) THEN rss_entries(entries, i + 1, items)
         ELSE IF description.t # "str" \/ pubdate.t # "str" THEN Exc("AttributeError", TRUE)
         ELSE rss_entries(entries, i + 1,
                 Append(items,
                        JDict(<<KV("title", JStr(Strip(title.s))),
                                KV("url", JStr(Strip(link.s))),
                                KV("description", JStr(Take(Strip(description.s), DescLimit))),
                                KV("published", JStr(Strip(pubdate.s)))>>)))

\* The answer of a feed URL
RssAnswer(n, url) ==
    IF url.t = "str" /\ url.s \in DOMAIN n.rss THEN n.rss[url.s] ELSE Fail

\* lines 232-294
fetch_rss(config, n) ==
    IF config.t # "dict" THEN Exc("AttributeError", FALSE)
    ELSE LET url     == Get(config, "url")
             limit   == GetDefault(config, "limit", JNum(DefaultLimit))
             content == fetch_url(RssAnswer(n, url))
         IN
         IF ~Truthy(url) THEN Ret(<<>>, FALSE)
         ELSE IF Blank(content) THEN Ret(<<>>, TRUE)
         ELSE IF ~content.xml.ok THEN Ret(<<>>, TRUE)
         ELSE IF limit.t = "null" THEN rss_entries(content.xml.entries, 1, <<>>)
         ELSE IF ~IsInt(limit) THEN Exc("TypeError", TRUE)
         ELSE rss_entries(Take(content.xml.entries, IntOf(limit)), 1, <<>>)

\* lines 307-312
FETCHERS == {"hackernews", "reddit", "github_trending", "rss"}
IsFetcher(source_type) ==
    source_type.t = "str" /\ Len(source_type.s) = 1 /\ source_type.s[1] \in FETCHERS
Fetcher(source_type, config, n) ==
    CASE source_type = S("hackernews")      -> fetch_hackernews(config, n)
      [] source_type = S("reddit")          -> fetch_reddit(config, n)
      [] source_type = S("github_trending") -> fetch_github_trending(config, n)
      [] source_type = S("rss")             -> fetch_rss(config, n)

\* The answer of the URL a fetcher fetches first
PrimaryAnswer(source_type, config, n) ==
    CASE source_type = S("hackernews")      -> n.hn_top
      [] source_type = S("reddit")          -> n.reddit
      [] source_type = S("github_trending") -> n.github
      [] source_type = S("rss")             -> RssAnswer(n, Get(config, "url"))

\* A value that can be a dict key
Hashable(v) == v.t \notin {"list", "dict"}

\* results["sources"][source_id] = entry
Put(rs, source_id, entry) ==
    [q \in (DOMAIN rs) \cup {source_id} |-> IF q = source_id THEN entry ELSE rs[q]]

\* line 354 as it would be if it counted the entries, not their items
SumCounts_counting_entries(rs, ids) == Cardinality(ids)

\* line 354: sum(s["count"] for s in results["sources"].values())
RECURSIVE SumCounts(_, _)
SumCounts(rs, ids) ==
    IF ids = {} THEN 0
    ELSE LET q == CHOOSE x \in ids : TRUE IN rs[q].count + SumCounts(rs, ids \ {q})

\* lines 299-300 and 314: load_sources() and config.get("sources", [])
FLoad ==
    /\ pc = "f_load"
    /\ IF sourcesFile = Missing THEN RaiseIn("FileNotFoundError") /\ UNCHANGED <<srcList, srcIdx>>
       ELSE IF sourcesFile = Invalid
       THEN RaiseIn("JSONDecodeError") /\ UNCHANGED <<srcList, srcIdx>>
       ELSE IF sourcesFile.t # "dict"
       THEN RaiseIn("AttributeError") /\ UNCHANGED <<srcList, srcIdx>>
       ELSE IF ~Iterable(GetDefault(sourcesFile, "sources", JList(<<>>)))
       THEN RaiseIn("TypeError") /\ UNCHANGED <<srcList, srcIdx>>
       ELSE /\ srcList' = Iter(GetDefault(sourcesFile, "sources", JList(<<>>)))
            /\ srcIdx' = 1
            /\ pc' = "f_source"
            /\ UNCHANGED <<exitCode, traceback>>
    /\ UNCHANGED <<dailyFile, nowHours, validateVars, renderVars, migrateVars, sourcesFile,
                   net, results, calls, fetchedFile, total>>

\* lines 314-335: one turn of the loop over the sources
FSource ==
    /\ pc = "f_source"
    /\ srcIdx <= Len(srcList)
    /\ LET source == srcList[srcIdx] IN
       IF source.t # "dict"
       THEN RaiseIn("AttributeError") /\ UNCHANGED <<srcIdx, results, calls>>
       ELSE IF ~Truthy(GetDefault(source, "enabled", JBool(FALSE)))
       THEN /\ srcIdx' = srcIdx + 1
            /\ UNCHANGED <<pc, exitCode, traceback, results, calls>>
       ELSE LET source_id     == Get(source, "id")
                source_type   == Get(source, "type")
                source_config == GetDefault(source, "config", JDict(<<>>))
            IN
            IF ~Hashable(source_type)
            THEN RaiseIn("TypeError") /\ UNCHANGED <<srcIdx, results, calls>>
            ELSE IF ~IsFetcher(source_type)
            THEN /\ srcIdx' = srcIdx + 1
                 /\ UNCHANGED <<pc, exitCode, traceback, results, calls>>
            ELSE LET r == Fetcher(source_type, source_config, net) IN
                 /\ calls' = Append(calls,
                                    [id |-> source_id, type |-> source_type.s[1],
                                     primary |-> PrimaryAnswer(source_type, source_config, net),
                                     r |-> r])
                 /\ IF ~r.ok THEN RaiseIn(r.err) /\ UNCHANGED <<srcIdx, results>>
                    ELSE IF ~Hashable(source_id)
                    THEN RaiseIn("TypeError") /\ UNCHANGED <<srcIdx, results>>
                    ELSE /\ results' = Put(results, source_id,
                                           [type |-> source_type, count |-> Len(r.items),
                                            items |-> r.items])
                         /\ srcIdx' = srcIdx + 1
                         /\ UNCHANGED <<pc, exitCode, traceback>>
    /\ UNCHANGED <<dailyFile, nowHours, validateVars, renderVars, migrateVars, sourcesFile,
                   net, srcList, fetchedFile, total>>

\* lines 337 and 343-357: fetch_all returns, main() saves and prints the total
FSave ==
    /\ pc = "f_source"
    /\ srcIdx > Len(srcList)
    /\ fetchedFile' = results
    /\ total' = SumCounts(results, DOMAIN results)
    /\ pc' = "done"
    /\ exitCode' = ExitOK
    /\ UNCHANGED <<traceback, dailyFile, nowHours, validateVars, renderVars, migrateVars,
                   sourcesFile, net, srcList, srcIdx, results, calls>>

(***************************************************************************)
(* The inputs of fetch_sources.py: sources.json and what the network       *)
(* answers.  Each run deviates from the base in at most MaxFetchDefects    *)
(* parts.                                                                  *)
(***************************************************************************)
MaxFetchDefects == 2

FeedUrl == <<"https://", "blog/feed">>
Src(id, type, config) ==
    JDict(<<KV("id", S(id)), KV("type", S(type)), KV("enabled", JBool(TRUE)),
            KV("config", config)>>)
BaseSources ==
    << Src("hn", "hackernews", JDict(<<KV("min_score", JNum(100)), KV("limit", JNum(2))>>)),
       Src("reddit", "reddit", JDict(<<KV("subreddit", S("ml")), KV("limit", JNum(1))>>)),
       Src("gh", "github_trending", JDict(<<KV("limit", JNum(2))>>)),
       Src("blog", "rss", JDict(<<KV("url", JStr(FeedUrl)), KV("limit", JNum(2))>>)) >>
WithLimit(src, limit) == With(src, "config", With(Get(src, "config"), "limit", limit))
SourceAlts(src) ==
    { With(src, "enabled", JBool(FALSE)), Without(src, "enabled"),
      With(src, "type", S("twitter")), Without(src, "type"),
      Without(src, "config"), With(src, "config", JNull),
      With(src, "id", S("hn")), Without(src, "id"), With(src, "id", JList(<<>>)),
      WithLimit(src, JNull), WithLimit(src, S("2")), WithLimit(src, JNum(0)),
      JNull }

SourcesFileOf(srcs) == JDict(<<KV("sources", JList(srcs))>>)
SourcesTopAlts ==
    { Missing, Invalid, JList(<<>>), JDict(<<>>), JDict(<<KV("sources", JNull)>>),
      SourcesFileOf(<<>>) }

StoryIds == <<JNum(101), JNum(102), JNum(103)>>
GoodStory ==
    JDict(<<KV("title", S("Story")), KV("url", JStr(<<"https://", "story">>)),
            KV("score", JNum(150)), KV("by", S("pg")), KV("time", JNum(1))>>)
GoodPost ==
    JDict(<<KV("title", S("Post")), KV("url", JStr(<<"https://", "post">>)),
            KV("score", JNum(80)), KV("author", S("u")), KV("permalink", S("/r/ml/1"))>>)
Listing(children) ==
    JDict(<<KV("kind", S("Listing")), KV("data", JDict(<<KV("children", children)>>))>>)
Child(post) == JDict(<<KV("kind", S("t3")), KV("data", post)>>)
GoodEntry ==
    Entry(Elem(S("Title")), Elem(JStr(FeedUrl)), Elem(S("Text")), Elem(S("2026-02-14")))
AtomEntry ==
    Entry(Elem(S("Title")), AtomLink(JStr(FeedUrl)), Elem(S("Text")), Elem(S("2026-02-14")))

HnTopBase == JsonText(JList(StoryIds))
HnTopAlts ==
    { Fail, EmptyText, Garbage, JsonText(JNull), JsonText(JList(<<>>)),
      JsonText(JDict(<<KV("error", S("denied"))>>)), JsonText(JNum(7)), JsonText(S("ab")) }
HnItemBase == JsonText(GoodStory)
HnItemAlts ==
    { Fail, Garbage, JsonText(JNull), JsonText(With(GoodStory, "score", JNum(5))),
      JsonText(Without(GoodStory, "url")), JsonText(JList(<<JNum(1)>>)),
      JsonText(With(GoodStory, "score", S("150"))), JsonText(With(GoodStory, "time", JNull)),
      JsonText(With(GoodStory, "url", JNum(1))) }
ArticleBase == HtmlText(<<>>, <<" ", "An article", " ">>)
ArticleAlts == { Fail, EmptyText, HtmlText(<<>>, <<>>) }
RedditBase == JsonText(Listing(JList(<<Child(GoodPost), Child(With(GoodPost, "score", JNum(3)))>>)))
RedditAlts ==
    { Fail, Garbage, JsonText(JNull), JsonText(JList(<<>>)), JsonText(JList(<<S("data")>>)),
      JsonText(JDict(<<KV("error", JNum(429))>>)), JsonText(S("data")), JsonText(JNum(1)),
      JsonText(JDict(<<KV("data", JNull)>>)), JsonText(JDict(<<KV("data", JDict(<<>>))>>)),
      JsonText(Listing(JNull)), JsonText(Listing(JList(<<JNull>>))),
      JsonText(Listing(JList(<<Child(JNull)>>))),
      JsonText(Listing(JList(<<Child(GoodPost), Child(With(GoodPost, "score", S("80")))>>))),
      JsonText(Listing(JList(<<Child(GoodPost), Child(GoodPost)>>))) }
GithubBase ==
    HtmlText(<< Article(<<"openai", "/", "gym">>, <<"\n", "A &amp; B", "\n">>, <<"1", ",", "234">>,
                        <<"Python">>),
                Article(<<"login", "?return_to">>, <<>>, <<>>, <<>>),
                Article(<<>>, <<>>, <<>>, <<>>),
                Article(<<"org", "/", "tool">>, <<>>, <<>>, <<>>),
                Article(<<"org", "/", "third">>, <<"Third">>, <<"7">>, <<>>) >>, <<>>)
GithubAlts == { Fail, EmptyText, Garbage, HtmlText(<<>>, <<"Trending">>) }
RepoBase == HtmlText(<<>>, <<"A repository">>)
RepoAlts == { Fail, HtmlText(<<>>, <<>>) }
RssBase == XmlText(<<GoodEntry, Entry(NoElem, Elem(JStr(FeedUrl)), NoElem, NoElem), AtomEntry>>)
RssAlts ==
    { Fail, EmptyText, Garbage, JsonText(JDict(<<>>)), XmlText(<<>>),
      XmlText(<<Entry(Elem(S("Title")), Elem(JStr(FeedUrl)), Elem(JNull), Elem(S("2026")))>>),
      XmlText(<<GoodEntry, Entry(Elem(S("Title")), Elem(JStr(FeedUrl)), Elem(S("Text")),
                                 Elem(JNull))>>),
      XmlText(<<Entry(Elem(JNull), Elem(JStr(FeedUrl)), Elem(JNull), NoElem),
                Entry(Elem(S("Title")), NoElem, NoElem, NoElem)>>),
      XmlText(<<Entry(Elem(S("Title")), Elem(JStr(FeedUrl)), NoElem, NoElem)>>) }

\* One source of sources.json replaced by an alternative.
NoSrcDefect == [slot |-> 0, src |-> JNull]
SrcDefects ==
    UNION {{[slot |-> i, src |-> a] : a \in SourceAlts(BaseSources[i])} :
             i \in 1..Len(BaseSources)}
SourcesOf(c) ==
    [i \in 1..Len(BaseSources) |-> IF c.src.slot = i THEN c.src.src ELSE BaseSources[i]]

FetchFields ==
    {"top", "src", "hn_top", "hn_item", "article", "reddit", "github", "repo", "rss"}
FetchDefectSets == {G \in SUBSET FetchFields : Cardinality(G) <= MaxFetchDefects}

FetchChoicesWith(F) ==
    [ top     : Pick(F, "top", Absent, SourcesTopAlts),
      src     : Pick(F, "src", NoSrcDefect, SrcDefects),
      hn_top  : Pick(F, "hn_top", HnTopBase, HnTopAlts),
      hn_item : Pick(F, "hn_item", HnItemBase, HnItemAlts),
      article : Pick(F, "article", ArticleBase, ArticleAlts),
      reddit  : Pick(F, "reddit", RedditBase, RedditAlts),
      github  : Pick(F, "github", GithubBase, GithubAlts),
      repo    : Pick(F, "repo", RepoBase, RepoAlts),
      rss     : Pick(F, "rss", RssBase, RssAlts) ]

\* The first story's URL answers c.hn_item, the others the base answer.
NetOf(c) ==
    [ hn_top  |-> c.hn_top,
      hn_item |-> [sid \in {StoryIds[i] : i \in 1..Len(StoryIds)} |->
                      IF sid = StoryIds[1] THEN c.hn_item ELSE HnItemBase],
      article |-> c.article,
      reddit  |-> c.reddit,
      github  |-> c.github,
      repo    |-> c.repo,
      rss     |-> [u \in {FeedUrl} |-> c.rss] ]

InitFetch ==
    /\ pc = "f_load"
    /\ exitCode = Running
    /\ traceback = ""
    /\ dailyFile = Missing
    /\ nowHours \in NowChoices
    /\ dieMsg = <<>>
    /\ warnings = {}
    /\ okPrinted = FALSE
    /\ technemeFile = Missing
    /\ templateFile = Missing
    /\ files = <<>>
    /\ date = <<>>
    /\ contentHtml = <<>>
    /\ out = <<>>
    /\ MigrateIdle
    /\ srcList = <<>>
    /\ srcIdx = 0
    /\ results = <<>>
    /\ calls = <<>>
    /\ fetchedFile = Missing
    /\ total = -1
    /\ \E F \in FetchDefectSets : \E c \in FetchChoicesWith(F) :
          /\ sourcesFile = IF c.top = Absent THEN SourcesFileOf(SourcesOf(c)) ELSE c.top
          /\ net = NetOf(c)

NextFetch ==
    \/ FLoad
    \/ FSource
    \/ FSave

SpecFetch == InitFetch /\ [][NextFetch]_vars

(***************************************************************************)
(* Claims about fetch_sources.py                                           *)
(***************************************************************************)
\* The body of a feed that ET.fromstring cannot parse
NotParseable(answer) == answer.kind = "text" /\ ~answer.empty /\ ~answer.xml.ok

\* C6: a fetcher whose fetch of its primary URL fails (fetch_url gives
\* None), and fetch_rss whose feed is not parseable XML, returns the empty
\* list and raises nothing.
C6_FailedFetchGivesEmptyList ==
    \A i \in 1..Len(calls) :
       LET call == calls[i] IN
       /\ (call.r.fetched /\ call.primary.kind = "fail") =>
             /\ fetch_url(call.primary) = NoneText
             /\ call.r.ok
             /\ call.r.items = <<>>
       /\ (call.type = "rss" /\ call.r.fetched /\ NotParseable(call.primary)) =>
             /\ call.r.ok
             /\ call.r.items = <<>>

\* All four fetchers were called, the run went on to the end, and both
\* cases happened: a primary fetch failed, or the feed was not XML.
C6_Witness ==
    /\ Done
    /\ exitCode = ExitOK
    /\ {calls[i].type : i \in 1..Len(calls)} = FETCHERS
    /\ \E i \in 1..Len(calls) :
          /\ calls[i].r.fetched
          /\ calls[i].primary.kind = "fail"
          /\ calls[i].id \in DOMAIN fetchedFile
          /\ fetchedFile[calls[i].id].count = 0
    /\ \E i \in 1..Len(calls) : calls[i].type = "rss" /\ NotParseable(calls[i].primary)

\* A source that is switched on and whose type has a fetcher.
EnabledKnown(source) ==
    /\ source.t = "dict"
    /\ Get(source, "enabled") = JBool(TRUE)
    /\ Get(source, "type") \in {S(f) : f \in FETCHERS}
\* The sources of sources.json that fetch_all is to fetch, in order.
ToFetch == SelectSeq(srcList, EnabledKnown)
\* The number of items a result stores.
RECURSIVE StoredItems(_, _)
StoredItems(rs, ids) ==
    IF ids = {} THEN 0
    ELSE LET q == CHOOSE x \in ids : TRUE
         IN Len(rs[q].items) + StoredItems(rs, ids \ {q})

\* C13: fetch_all calls a fetcher for the enabled sources of known type, in
\* order, and for no other source (a source whose 'enabled' is false or
\* absent, or whose type is unknown, is skipped); the result has an entry
\* for an id only if an enabled source of known type has that id; every
\* entry's count is the length of its items; and the total main() prints
\* is the number of items stored in the file it saved.
C13_EnabledKnownOnly ==
    /\ Len(calls) <= Len(ToFetch)
    /\ \A k \in 1..Len(calls) :
          /\ calls[k].id = Get(ToFetch[k], "id")
          /\ S(calls[k].type) = Get(ToFetch[k], "type")
    /\ \A q \in DOMAIN results :
          /\ results[q].count = Len(results[q].items)
          /\ \E i \in 1..Len(srcList) : EnabledKnown(srcList[i]) /\ Get(srcList[i], "id") = q
    /\ (Done /\ exitCode = ExitOK) =>
          /\ Len(calls) = Len(ToFetch)
          /\ fetchedFile = results
          /\ total = StoredItems(fetchedFile, DOMAIN fetchedFile)

\* A finished run that skipped a source and stored more items than it has
\* entries.
C13_Witness ==
    /\ Done
    /\ exitCode = ExitOK
    /\ Len(ToFetch) < Len(srcList)
    /\ Len(calls) = Len(ToFetch)
    /\ Cardinality(DOMAIN fetchedFile) >= 2
    /\ total > Cardinality(DOMAIN fetchedFile)

\* A sources.json that is itself in order: an object whose 'sources' are
\* objects with a string id and an object config with an integer limit.
WellFormedSource(source) ==
    /\ source.t = "dict"
    /\ Get(source, "id").t = "str"
    /\ Get(source, "config").t = "dict"
    /\ Get(Get(source, "config"), "limit").t = "num"
WellFormedSources ==
    /\ sourcesFile.t = "dict"
    /\ Get(sourcesFile, "sources").t = "list"
    /\ \A i \in 1..Len(Get(sourcesFile, "sources").l) :
          WellFormedSource(Get(sourcesFile, "sources").l[i])

\* C16: with a sources.json in order, whatever the network answers, the
\* run ends normally and the saved result has an entry for every enabled
\* source of known type: a source that fails does not stop the others.
C16_FailureIsolated ==
    (Done /\ WellFormedSources) =>
        /\ exitCode = ExitOK
        /\ fetchedFile # Missing
        /\ \A k \in 1..Len(ToFetch) : Get(ToFetch[k], "id") \in DOMAIN fetchedFile

(***************************************************************************)
(* migrate_archives.py                                                     *)
(*                                                                         *)
(* A page is a sequence of tokens: a tag, a run of text or a newline.      *)
(***************************************************************************)
\* lines 25-27: filename.replace(".html", "")
NotHtmlSuffix(tok) == tok # ".html"
extract_date_from_filename(filename) == SelectSeq(filename, NotHtmlSuffix)

\* lines 30-33: strptime raises ValueError unless the string is a date
date_to_chinese(date_str) ==
    IF IsDate(date_str) THEN ROk(<<"human:">> \o date_str) ELSE RErr("ValueError")

\* The first position after `from` where tok[j] is one of `closers`, or 0
NextOf(html, from, closers) ==
    IF \E j \in (from + 1)..Len(html) : html[j] \in closers
    THEN CHOOSE j \in (from + 1)..Len(html) :
            /\ html[j] \in closers
            /\ \A k \in (from + 1)..(j - 1) : html[k] \notin closers
    ELSE 0

\* re.sub(r'<open>.*?<close>', '', s, flags=re.DOTALL): every block from
\* an opening token to the next closing token goes
RECURSIVE RemoveBlocks(_, _, _)
RemoveBlocks(s, openers, closers) ==
    IF Len(s) = 0 THEN <<>>
    ELSE IF s[1] \in openers /\ NextOf(s, 1, closers) # 0
    THEN RemoveBlocks(SubSeq(s, NextOf(s, 1, closers) + 1, Len(s)), openers, closers)
    ELSE <<s[1]>> \o RemoveBlocks(Tail(s), openers, closers)

\* re.sub(r'\n{3,}', '\n\n', s)
RECURSIVE SquashNewlines(_)
SquashNewlines(s) ==
    IF Len(s) < 3 THEN s
    ELSE IF s[1] = NL /\ s[2] = NL /\ s[3] = NL THEN SquashNewlines(Tail(s))
    ELSE <<s[1]>> \o SquashNewlines(Tail(s))

\* `</div>\s*</body>` at position j
ClosesContainer(html, j) ==
    /\ html[j] = "</div>"
    /\ \E k \in (j + 1)..Len(html) :
          /\ html[k] = "</body>"
          /\ \A m \in (j + 1)..(k - 1) : IsSpace(html[m])

\* lines 42-50: what (.+?) matches, or <<>> without a match
container_html(html) ==
    LET starts == {i \in 1..Len(html) :
                      /\ html[i] = "<div class=\"container\">"
                      /\ \E j \in (i + 2)..Len(html) : ClosesContainer(html, j)}
    IN IF starts = {} THEN <<>>
       ELSE LET i == CHOOSE x \in starts : \A y \in starts : x <= y
                j == CHOOSE x \in (i + 2)..Len(html) :
                        /\ ClosesContainer(html, x)
                        /\ \A y \in (i + 2)..(x - 1) : ~ClosesContainer(html, y)
            IN SubSeq(html, i + 1, j - 1)

\* lines 36-63
extract_body_content(html) ==
    SquashNewlines(Strip(
        RemoveBlocks(
            RemoveBlocks(
                RemoveBlocks(container_html(html), {"<header>"}, {"</header>"}),
                {"<div class=\"page-title\">"}, {"</div>"}),
            {"<footer>"}, {"</footer>"})))

\* lines 80-127 and 133: the class names of the old pages, tag by tag
NormalizedTag(tok) ==
    CASE tok = "<section>"                       -> "<section class=\"section\">"
      [] tok = "<div class=\"news-item\">"       -> "<div class=\"card\">"
      [] tok = "<div class=\"news-title\">"      -> "<div class=\"card-title\">"
      [] tok = "<div class=\"news-desc\">"       -> "<div class=\"card-content\">"
      [] tok = "<div class=\"news-time\">"       -> "<div class=\"card-meta\">"
      [] tok = "<div class=\"news-source\">"     -> "<div class=\"card-sources\">"
      [] tok = "<div class=\"news-sources\">"    -> "<div class=\"card-sources\">"
      [] tok = "<span class=\"news-tag\">"       -> "<span class=\"tag\">"
      [] tok = "<span class=\"tag highlight\">"  -> "<span class=\"tag tag-hot\">"
      [] tok = "<div class=\"check-section\" id=\"check\">" -> "<div class=\"highlight-box\">"
      [] tok = "<div class=\"check-title\">"     -> "<div class=\"highlight-title\">"
      [] tok = "<ul class=\"check-list\">"       -> "<ul class=\"highlight-list\">"
      [] tok = "<div class=\"x-card\">"          -> "<div class=\"card\">"
      [] tok = "<div class=\"x-header\">"        -> "<div class=\"card-meta\">"
      [] tok = "<span class=\"x-name\">"         -> "<span class=\"x-author\">"
      [] tok = "<div class=\"x-stats\">"         -> "<div class=\"x-engagement\">"
      [] tok = "<div class=\"dedupe-list\">"     -> "<div class=\"highlight-box\">"
      [] tok = "<p style=\"font-family: serif\">" -> "<p >"
      [] OTHER                                   -> tok

\* lines 66-139
normalize_content(content) ==
    RemoveBlocks([i \in 1..Len(content) |-> NormalizedTag(content[i])],
                 {"<section class=\"archive\">", "<div class=\"archive\">"},
                 {"</section>", "</div>"})

\* lines 160-185: as render_archive_nav
build_archive_nav(fs, current_date) ==
    LET archive_files == SortedDesc(ArchiveStems(fs)) IN
    IF Len(archive_files) = 0 THEN <<>>
    ELSE Join(<< <<"<div class=\"nav\">">>, <<"<div class=\"nav-row\">">> >>
              \o SelectSeq([i \in 1..Len(archive_files) |->
                               nav_entry(archive_files[i], current_date)], NonEmpty)
              \o << <<"</div>">>, <<"</div>">> >>, NL)

\* lines 142-157
build_new_page(fs, date_str, content, tpl, now) ==
    IF tpl = Missing THEN RErr("FileNotFoundError")
    ELSE IF ~date_to_chinese(date_str).ok THEN RErr("ValueError")
    ELSE ROk(Replace(
               Replace(
                 Replace(
                   Replace(tpl, "{{DATE_HUMAN}}", date_to_chinese(date_str).s),
                   "{{CONTENT}}", content),
                 "{{GENERATED_AT_UTC}}", now_utc(now)),
               "{{ARCHIVE_NAV}}", build_archive_nav(fs, date_str)))

\* What migrate_file gives: True or False, or an exception it lets
\* through; and the files as it leaves them.
Migrated(r, err, fs) == [r |-> r, err |-> err, fs |-> fs]

\* lines 190-205: the new page of archive/<stem>.html
new_html(fs, stem, tpl, now) ==
    LET content == extract_body_content(fs[ArchiveFile(stem)]) IN
    IF Len(Strip(content)) = 0 THEN [r |-> "false", err |-> "", page |-> <<>>]
    ELSE LET page == build_new_page(fs, extract_date_from_filename(stem \o <<".html">>),
                                    normalize_content(content), tpl, now)
         IN IF page.ok THEN [r |-> "true", err |-> "", page |-> page.s]
            ELSE [r |-> "raise", err |-> page.err, page |-> <<>>]

\* Mutation: lines 207-209 (the dry_run return) are gone.
migrate_file_always_writing(fs, stem, dry_run, tpl, now) ==
    LET p == new_html(fs, stem, tpl, now) IN
    IF p.r # "true" THEN Migrated(p.r, p.err, fs)
    ELSE Migrated("true", "", WriteText(fs, ArchiveFile(stem), p.page))

\* lines 188-214
migrate_file(fs, stem, dry_run, tpl, now) ==
    LET p == new_html(fs, stem, tpl, now) IN
    IF p.r # "true" THEN Migrated(p.r, p.err, fs)
    ELSE IF dry_run THEN Migrated("true", "", fs)
    ELSE Migrated("true", "", WriteText(fs, ArchiveFile(stem), p.page))

\* sorted(ARCHIVE_DIR.glob("*.html")), as stems
RECURSIVE SortedAsc(_)
SortedAsc(stems) ==
    IF stems = {} THEN <<>>
    ELSE LET m == CHOOSE x \in stems : \A y \in stems : ~NameLess(y, x)
         IN <<m>> \o SortedAsc(stems \ {m})

\* line 237: max(archive_files, key=lambda f: f.stem).stem
latest_date(stems) == CHOOSE x \in stems : \A y \in stems : ~SeqLess(x, y)

Report(stem, result) == [stem |-> stem, result |-> result]

MigrateRest ==
    <<dailyFile, nowHours, validateVars, fetchVars, technemeFile, templateFile, date,
      contentHtml, out>>

\* lines 218-240: the archive files, sorted, and the latest one
MStart ==
    /\ pc = "m_start"
    /\ IF ArchiveStems(files) = {}
       THEN /\ pc' = "done"
            /\ exitCode' = ExitOK
            /\ UNCHANGED <<archiveList, fileIdx>>
       ELSE /\ archiveList' = SortedAsc(ArchiveStems(files))
            /\ fileIdx' = 1
            /\ pc' = "m_loop"
            /\ UNCHANGED exitCode
    /\ UNCHANGED <<traceback, files, dryRun, passed, reported, counts, files0, dryReport,
                   renderRuns>>
    /\ UNCHANGED MigrateRest

\* lines 246-255: one turn of the loop over archive_files
MFile ==
    /\ pc = "m_loop"
    /\ fileIdx <= Len(archiveList)
    /\ LET date_str   == archiveList[fileIdx]
           skip_dates == {latest_date({archiveList[i] : i \in 1..Len(archiveList)})}
           m          == migrate_file(files, date_str, dryRun, templateFile, nowHours)
       IN
       IF date_str \in skip_dates
       THEN /\ counts' = [counts EXCEPT !.skip = @ + 1]
            /\ reported' = Append(reported, Report(date_str, "skipped"))
            /\ fileIdx' = fileIdx + 1
            /\ UNCHANGED <<pc, exitCode, traceback, files, passed>>
       ELSE /\ passed' = Append(passed, date_str)
            /\ files' = m.fs
            /\ IF m.r = "raise"
               THEN RaiseIn(m.err) /\ UNCHANGED <<counts, reported, fileIdx>>
               ELSE /\ counts' = IF m.r = "true"
                                 THEN [counts EXCEPT !.success = @ + 1]
                                 ELSE [counts EXCEPT !.fail = @ + 1]
                    /\ reported' = Append(reported,
                                          Report(date_str, IF m.r = "true" THEN "migrated"
                                                                           ELSE "failed"))
                    /\ fileIdx' = fileIdx + 1
                    /\ UNCHANGED <<pc, exitCode, traceback>>
    /\ UNCHANGED <<dryRun, archiveList, files0, dryReport, renderRuns>>
    /\ UNCHANGED MigrateRest

\* lines 257-271: the loop is over; a dry run ends here, a real run starts
\* render.py
MResults ==
    /\ pc = "m_loop"
    /\ fileIdx > Len(archiveList)
    /\ IF dryRun
       THEN pc' = "done" /\ exitCode' = ExitOK /\ UNCHANGED renderRuns
       ELSE pc' = "r_load" /\ renderRuns' = renderRuns + 1 /\ UNCHANGED exitCode
    /\ UNCHANGED <<traceback, files, dryRun, archiveList, fileIdx, passed, reported, counts,
                   files0, dryReport>>
    /\ UNCHANGED MigrateRest

\* lines 272-275: render.py is over; whatever its exit status, main()
\* prints it and returns
MRendered ==
    /\ pc = "m_rendered"
    /\ pc' = "done"
    /\ exitCode' = ExitOK
    /\ traceback' = ""
    /\ UNCHANGED <<files, migrateVars>>
    /\ UNCHANGED MigrateRest

\* After a dry run the script is run for real on the same files.
MRealRun ==
    /\ pc = "done"
    /\ dryRun
    /\ dryReport' = [made |-> TRUE, reported |-> reported, counts |-> counts,
                     passed |-> passed, exitCode |-> exitCode, traceback |-> traceback]
    /\ dryRun' = FALSE
    /\ pc' = "m_start"
    /\ exitCode' = Running
    /\ traceback' = ""
    /\ archiveList' = <<>>
    /\ fileIdx' = 0
    /\ passed' = <<>>
    /\ reported' = <<>>
    /\ counts' = [success |-> 0, skip |-> 0, fail |-> 0]
    /\ files0' = files
    /\ UNCHANGED <<files, renderRuns>>
    /\ UNCHANGED MigrateRest

(***************************************************************************)
(* The inputs of migrate_archives.py: up to MaxArchiveFiles pages in       *)
(* archive/, template.html, the --dry-run flag, and daily.json for the     *)
(* render.py run.                                                          *)
(***************************************************************************)
MaxArchiveFiles == 3

StemPool ==
    { <<"2026-02-12">>, <<"2026-02-13">>, <<"2026-02-13", "-old">>, <<"2026-02-14">>,
      <<"notes">> }

OldStylePage ==
    <<"<html>", "<body>", "<div class=\"container\">", NL, "<header>", "old header", "</header>",
      "<div class=\"page-title\">", "title", "</div>", NL, NL, NL,
      "<section>", "<div class=\"news-item\">", "news on ", "{{GENERATED_AT_UTC}}", " and ",
      "{{ARCHIVE_NAV}}", " and ", "{{DATE_HUMAN}}", "</div>", "</section>",
      "<section class=\"archive\">", "links", "</section>",
      "<footer>", "old footer", "</footer>", NL, "</div>", NL, "</body>", "</html>">>
PlainPage == <<"<html>", "<body>", "<p>", "text", "</p>", "</body>", "</html>">>
HeaderOnlyPage ==
    <<"<html>", "<body>", "<div class=\"container\">", "<header>", "old header", "</header>", NL,
      "<footer>", "old footer", "</footer>", "</div>", "</body>", "</html>">>
PagePool == {OldStylePage, PlainPage, HeaderOnlyPage}

ContainerTemplate ==
    <<"<html>", "<body>", "<div class=\"container\">", "{{DATE_HUMAN}}", "{{DATE_DAY}}",
      "{{CONTENT}}", "{{ARCHIVE_NAV}}", "{{GENERATED_AT_UTC}}", "</div>", "</body>", "</html>">>
MigrateTemplates == {BaseTemplate, ContainerTemplate}

BaseDaily == DocOf(CHOOSE c \in ChoicesWith({}) : TRUE)
PlaceholderDaily ==
    With(BaseDaily, "headlines", JList(<<GoodItem, GoodItem, PlaceholderItem>>))
MigrateDailies == {PlaceholderDaily, Missing, JList(<<>>)}

ArchiveSets == {G \in SUBSET StemPool : Cardinality(G) <= MaxArchiveFiles}

InitMigrate ==
    /\ pc = "m_start"
    /\ exitCode = Running
    /\ traceback = ""
    /\ dailyFile \in MigrateDailies
    /\ nowHours \in NowChoices
    /\ dieMsg = <<>>
    /\ warnings = {}
    /\ okPrinted = FALSE
    /\ technemeFile = Missing
    /\ templateFile = Missing \/ templateFile \in MigrateTemplates
    /\ \E G \in ArchiveSets : \E pages \in [G -> PagePool] :
          files = [q \in {ArchiveFile(st) : st \in G} |-> pages[q.stem]]
    /\ files0 = files
    /\ date = <<>>
    /\ contentHtml = <<>>
    /\ out = <<>>
    /\ FetchIdle
    /\ dryRun \in BOOLEAN
    /\ archiveList = <<>>
    /\ fileIdx = 0
    /\ passed = <<>>
    /\ reported = <<>>
    /\ counts = [success |-> 0, skip |-> 0, fail |-> 0]
    /\ dryReport = NoReport
    /\ renderRuns = 0

NextMigrate ==
    \/ MStart
    \/ MFile
    \/ MResults
    \/ RLoad
    \/ RContent
    \/ RSubstitute
    \/ RWriteArchive
    \/ RWriteIndex
    \/ RWriteFinal
    \/ MRendered
    \/ MRealRun

SpecMigrate == InitMigrate /\ [][NextMigrate]_vars

(***************************************************************************)
(* Claims about migrate_archives.py                                        *)
(***************************************************************************)
IsPrefix(a, b) == Len(a) <= Len(b) /\ SubSeq(b, 1, Len(a)) = a

\* C8: a run with --dry-run changes no file and does not run render.py;
\* and a real run on the same files reports, file by file, what the dry
\* run reported, with the same counts and the same end.
C8_DryRunModifiesNothing ==
    /\ dryRun => (files = files0 /\ renderRuns = 0)
    /\ (~dryRun /\ dryReport.made) =>
          /\ IsPrefix(reported, dryReport.reported)
          /\ IsPrefix(passed, dryReport.passed)
          /\ Done => /\ reported = dryReport.reported
                     /\ passed = dryReport.passed
                     /\ counts = dryReport.counts
                     /\ exitCode = dryReport.exitCode
                     /\ traceback = dryReport.traceback

\* A real run after a dry run, both over: pages were rewritten, render.py
\* ran once, and both runs reported a migrated and a failed file.
C8_Witness ==
    /\ Done
    /\ ~dryRun
    /\ dryReport.made
    /\ files # files0
    /\ renderRuns = 1
    /\ \E i \in 1..Len(reported) : reported[i].result = "migrated"
    /\ \E i \in 1..Len(reported) : reported[i].result = "failed"
    /\ reported = dryReport.reported

Occurrences(seq, x) == Cardinality({i \in 1..Len(seq) : seq[i] = x})

\* C9: main() never rewrites the archive file of the greatest stem, never
\* passes it to migrate_file, and by the time it ends has passed every
\* other archive file to migrate_file exactly once.
C9_LatestSkippedOthersOnce ==
    LET stems == ArchiveStems(files0) IN
    (pc # "m_start" /\ stems # {}) =>
        /\ files[ArchiveFile(latest_date(stems))] = files0[ArchiveFile(latest_date(stems))]
        /\ Occurrences(passed, latest_date(stems)) = 0
        /\ \A st \in stems : Occurrences(passed, st) <= 1
        /\ Done => \A st \in stems \ {latest_date(stems)} : Occurrences(passed, st) = 1

\* What migrate_file makes of an archive page before it fills the template.
MigratedContent(html) == normalize_content(extract_body_content(html))

\* C15: substitution fills only the placeholders of template.html, so the
\* text made from the input stands in the output as it was made: after
\* render.py both pages hold the rendered content, and a page migrate_file
\* rewrote holds the normalized content of the old page, even when that
\* text names a placeholder.
C15_OnlyTemplatePlaceholders ==
    /\ ((pc = "m_rendered" \/ (Done /\ renderRuns = 0 /\ date # <<>>)) /\ exitCode = ExitOK) =>
          \A path \in {IndexPath, ArchiveFile(date)} :
             path \in DOMAIN files /\ Contains(files[path], contentHtml)
    /\ (pc = "m_loop" /\ ~dryRun) =>
          \A i \in 1..Len(reported) :
             reported[i].result = "migrated" =>
                Contains(files[ArchiveFile(reported[i].stem)],
                         MigratedContent(files0[ArchiveFile(reported[i].stem)]))

(***************************************************************************)
(* The digest pipeline: validate_json.py checks data/daily.json and, when  *)
(* it exits 0, render.py renders the same document.  template.html is in   *)
(* place, archive/ holds an earlier day, data/techneme.json is missing.    *)
(***************************************************************************)
PipelineFields == Fields \cup {"techmeme_headlines"}
PipelineDefectSets == {G \in SUBSET PipelineFields : Cardinality(G) <= MaxDefects}

InitPipeline ==
    /\ pc = "v_load"
    /\ exitCode = Running
    /\ \E F \in PipelineDefectSets : \E c \in ChoicesWith(F) : dailyFile = DocOf(c)
    /\ nowHours \in NowChoices
    /\ dieMsg = <<>>
    /\ warnings = {}
    /\ traceback = ""
    /\ okPrinted = FALSE
    /\ technemeFile = Missing
    /\ templateFile = BaseTemplate
    /\ files = BaseFiles
    /\ date = <<>>
    /\ contentHtml = <<>>
    /\ out = <<>>
    /\ FetchIdle
    /\ MigrateIdle

\* validate_json.py has exited 0: render.py is started on the document
VAccepted ==
    /\ pc = "done"
    /\ exitCode = ExitOK
    /\ okPrinted
    /\ date = <<>>
    /\ pc' = "r_load"
    /\ exitCode' = Running
    /\ UNCHANGED <<traceback, dailyFile, nowHours, validateVars, renderVars, fetchVars,
                   migrateVars>>

NextPipeline ==
    \/ VLoad
    \/ VDate
    \/ VHeadlines
    \/ VSections
    \/ VXHighlights
    \/ VWarnNoX
    \/ VSummary
    \/ VSelfCheck
    \/ VAccepted
    \/ RLoad
    \/ RContent
    \/ RSubstitute
    \/ RWriteArchive
    \/ RWriteIndex
    \/ RWriteFinal

SpecPipeline == InitPipeline /\ [][NextPipeline]_vars

\* render.py is over, run on a document validate_json.py accepted.
RenderedAccepted == Done /\ okPrinted /\ ~(exitCode = ExitOK /\ date = <<>>)

\* C14: a document validate_json.py accepts is rendered by render.py
\* without an exception, and the run leaves both index.html and
\* archive/<date>.html, whatever the document holds in the parts the
\* validator does not check (self_check, techmeme_headlines, the form of
\* the date, extra keys).
C14_AcceptedIsRendered ==
    RenderedAccepted =>
        /\ exitCode = ExitOK
        /\ IndexPath \in DOMAIN files
        /\ ArchiveFile(date) \in DOMAIN files

====
